---- MODULE Spec2Model ----
(***************************************************************************)
(* A model of the storefront client: the cart store (reducer, provider     *)
(* start-up from local storage, the save effect), the checkout submit      *)
(* handler with orderAPI.createOrder, and DataProvider.fetchWithFallback.  *)
(***************************************************************************)
EXTENDS Integers, Sequences, FiniteSets, Bags, TLC

VARIABLES
    phase,          \* "unmounted" before CartProvider renders, "mounted" after
    cartState,      \* useReducer state of CartProvider: [items |-> <<line, ...>>]
    storage,        \* the localStorage entry 'cart': [present, text]
    effectPending,  \* the save effect of the last render has not run yet
    loadError,      \* an exception escaped the provider's start-up code
    coPc,           \* CheckoutPage.handleSubmit: "idle", "primary", "fallback", "done"
    isProcessing,   \* CheckoutPage state isProcessing
    coError,        \* CheckoutPage state error ("null" when none)
    coAttempts,     \* requests orderAPI.createOrder has issued: <<[path, outcome], ...>>
    coLeft,         \* per createOrder call of a page that was left, the path of the request it awaits (a bag)
    coResult,       \* what the last createOrder call came to: "none", "order", "undefined" or "thrown"
    fwPc,           \* fetchWithFallback: "idle", "primary", "fallback", "third", "returned", "thrown"
    fwArgs,         \* its arguments [primary, fallback]
    fwAttempts,     \* requests it has issued: <<[path, outcome], ...>>
    fwResult,       \* the body it returned ("none" before it returns)
    apiOp,          \* the services/api operation in flight or last called ("none" before any)
    apiPc,          \* its position: "idle", "me", "axios", "fetch", "returned", "thrown"
    apiAttempts,    \* requests it has issued through axios: <<[path, outcome], ...>>
    apiError,       \* message of the error it threw ("none" when it threw none)
    apiResult,      \* the user data it returned, a JavaScript value (undefined when it returned none)
    authPc,         \* AuthProvider: "unmounted", "idle" or the function awaiting a call
    currentUser,    \* AuthProvider state currentUser, a JavaScript value (null when none)
    isLoading,      \* AuthProvider state isLoading
    authError,      \* AuthProvider state error ("null" when none)
    sessionUser,    \* the sessionStorage entry 'currentUser': [present, text]
    authToken,      \* the localStorage entry 'authToken' ("none" when absent)
    authRaised,     \* message of the error the last AuthProvider call re-raised ("none")
    exchange,       \* what the awaited sign-in exchange settled with: [ok, val, message]
    dashboard,      \* the dashboard shown ("rider", "admin", "adminOrders"), "none", the path an admin page navigated to, or "error"
    orderList,      \* statuses of the orders the dashboard holds
    allowedStatuses, \* what the rows offer: getAllowedStatusesFor...(order.status) per order
    orderRiders,    \* riderId of each order of the list ("" when it has none)
    riderList,      \* AdminDashboard state riderList: ids of the riders
    dashLoading,    \* dashboard state loading (RiderDashboard: isLoading)
    pending,        \* the requests of the dashboard's effect awaiting their response
    dashError,      \* dashboard state error ("null" when none)
    handlers,       \* the handlers of the dashboards awaiting a call (a bag)
    dialog,         \* AdminDashboard state orderToAssign: the order of the dialog (0: closed)
    details,        \* AdminDashboard state selectedOrder: [order, rider] (order 0: closed)
    assigningRider, \* AdminDashboard state assigningRider
    server,         \* the orders as the server holds them: [orders, riders]
    inFlight,       \* session operations started from the pages and not settled, per operation
    route,          \* the route rendered last: [restricted, allowed, shown]
    callback,       \* the AuthCallback page: [mounted, processing, error, calls]
    rejected,       \* the token handleAuthToken rejected last for its user's role: [token, user]
    reducerRun,     \* calls of cartReducer with one state object: [started, first, state, payload, results]
    home            \* HomePage's featured products: [pc, attempts, loading, featured, error, source, response]

cartVars == <<phase, cartState, storage, effectPending, loadError>>
coVars == <<coPc, isProcessing, coError, coAttempts, coLeft, coResult>>
fwVars == <<fwPc, fwArgs, fwAttempts, fwResult>>
apiVars == <<apiOp, apiPc, apiAttempts, apiError, apiResult>>
authVars == <<authPc, currentUser, isLoading, authError, sessionUser, authToken,
              authRaised, exchange>>
dashVars == <<dashboard, orderList, allowedStatuses, orderRiders, riderList,
              dashLoading, pending, dashError, handlers, dialog, details,
              assigningRider, server>>
pageVars == <<route, callback, home, reducerRun>>
uiVars == <<inFlight, pageVars, rejected>>
\* What the cart store, the checkout page and fetchWithFallback leave alone.
serviceVars == <<apiVars, authVars, dashVars, uiVars>>
vars == <<phase, cartState, storage, effectPending, loadError,
          coPc, isProcessing, coError, coAttempts, coLeft, coResult,
          fwPc, fwArgs, fwAttempts, fwResult,
          apiOp, apiPc, apiAttempts, apiError, apiResult,
          authPc, currentUser, isLoading, authError, sessionUser, authToken,
          authRaised, exchange,
          dashboard, orderList, allowedStatuses, orderRiders, riderList,
          dashLoading, pending, dashError, handlers, dialog, details,
          assigningRider, server,
          inFlight, route, callback, home, reducerRun, rejected>>

-----------------------------------------------------------------------------
(* Bounds and the catalog the inputs are drawn from.                       *)

\* Largest quantity a line may reach (addToCart and updateQuantity are not
\* offered beyond it).
MaxQty == 3


\* Product objects as the catalog endpoints deliver them (the fields the
\* cart reads).  P1 has variants for (red, M) and (red, L) and none for blue;
\* P2 has none for red: those lines are priced by basePrice.
Catalog ==
    [P1 |-> [id |-> "P1", basePrice |-> 5,
             variants |-> <<[color |-> "red", size |-> "M", price |-> 7],
                            [color |-> "red", size |-> "L", price |-> 8]>>],
     P2 |-> [id |-> "P2", basePrice |-> 3,
             variants |-> <<[color |-> "blue", size |-> "M", price |-> 2]>>]]

\* The (productId, color, size) triples the operations are called with.
Triples ==
    { <<"P1", "red", "M">>, <<"P1", "blue", "M">>, <<"P2", "red", "M">> }

-----------------------------------------------------------------------------
(* Array helpers with the semantics of the JavaScript methods used.        *)

\* Array.prototype.findIndex, given the predicate's outcome on each element:
\* the first index (1-based here) whose element satisfies it, 0 when there
\* is none.
FindIndex(tests) ==
    IF \E i \in 1..Len(tests) : tests[i]
    THEN CHOOSE i \in 1..Len(tests) :
            /\ tests[i]
            /\ \A j \in 1..(i - 1) : ~tests[j]
    ELSE 0

\* Array.prototype.filter, given the predicate's outcome on each element:
\* the elements satisfying it, in order.
Filter(arr, tests) ==
    LET Kept(i) == tests[i]
        kept == SelectSeq([i \in 1..Len(arr) |-> i], Kept)
    IN  [k \in 1..Len(kept) |-> arr[kept[k]]]

\* The line-identity test all three reducer cases use.
SameLine(item, productId, color, size) ==
    /\ item.product.id = productId
    /\ item.selectedColor = color
    /\ item.selectedSize = size

-----------------------------------------------------------------------------
(* cartReducer                                                              *)

initialState == [items |-> <<>>]

ReduceAddOverwrite(state, payload) ==
    LET items == state.items
        Match(item) == SameLine(item, payload.product.id,
                                payload.selectedColor, payload.selectedSize)
        existingItemIndex == FindIndex([k \in 1..Len(items) |-> Match(items[k])])
    IN  IF existingItemIndex >= 1
        THEN [state EXCEPT !.items =
                [items EXCEPT ![existingItemIndex].quantity = payload.quantity]]
        ELSE [state EXCEPT !.items = Append(items, payload)]

ReduceAddAlwaysAppend(state, payload) ==
    [state EXCEPT !.items = Append(state.items, payload)]

\* case 'ADD_TO_CART'
ReduceAdd(state, payload) ==
    LET items == state.items
        Match(item) == SameLine(item, payload.product.id,
                                payload.selectedColor, payload.selectedSize)
        existingItemIndex == FindIndex([k \in 1..Len(items) |-> Match(items[k])])
    IN  IF existingItemIndex >= 1
        THEN [state EXCEPT !.items =
                [items EXCEPT ![existingItemIndex].quantity = @ + payload.quantity]]
        ELSE [state EXCEPT !.items = Append(items, payload)]

ReduceRemoveByProduct(state, payload) ==
    LET Keep(item) == item.product.id # payload.productId
    IN  [state EXCEPT !.items =
            Filter(state.items,
                   [k \in 1..Len(state.items) |-> Keep(state.items[k])])]

\* case 'REMOVE_FROM_CART'
ReduceRemove(state, payload) ==
    LET Keep(item) == ~SameLine(item, payload.productId, payload.color, payload.size)
    IN  [state EXCEPT !.items =
            Filter(state.items,
                   [k \in 1..Len(state.items) |-> Keep(state.items[k])])]

ReduceUpdateNoRemove(state, payload) ==
    LET Set(item) ==
            IF SameLine(item, payload.productId, payload.color, payload.size)
            THEN [item EXCEPT !.quantity = payload.quantity]
            ELSE item
    IN  [state EXCEPT !.items = [i \in 1..Len(state.items) |-> Set(state.items[i])]]

ReduceUpdateRemovesZeroOnly(state, payload) ==
    LET Keep(item) == ~SameLine(item, payload.productId, payload.color, payload.size)
        Set(item) ==
            IF SameLine(item, payload.productId, payload.color, payload.size)
            THEN [item EXCEPT !.quantity = payload.quantity]
            ELSE item
    IN  IF payload.quantity = 0
        THEN [state EXCEPT !.items =
                Filter(state.items,
                       [k \in 1..Len(state.items) |-> Keep(state.items[k])])]
        ELSE [state EXCEPT !.items =
                [i \in 1..Len(state.items) |-> Set(state.items[i])]]

\* case 'UPDATE_QUANTITY'
ReduceUpdate(state, payload) ==
    LET Keep(item) == ~SameLine(item, payload.productId, payload.color, payload.size)
        Set(item) ==
            IF SameLine(item, payload.productId, payload.color, payload.size)
            THEN [item EXCEPT !.quantity = payload.quantity]
            ELSE item
    IN  IF payload.quantity <= 0
        THEN [state EXCEPT !.items =
                Filter(state.items,
                       [k \in 1..Len(state.items) |-> Keep(state.items[k])])]
        ELSE [state EXCEPT !.items =
                [i \in 1..Len(state.items) |-> Set(state.items[i])]]

\* case 'CLEAR_CART'
ReduceClear(state) == [state EXCEPT !.items = <<>>]

cartReducer(state, action) ==
    CASE action.type = "ADD_TO_CART" -> ReduceAdd(state, action.payload)
      [] action.type = "REMOVE_FROM_CART" -> ReduceRemove(state, action.payload)
      [] action.type = "UPDATE_QUANTITY" -> ReduceUpdate(state, action.payload)
      [] action.type = "CLEAR_CART" -> ReduceClear(state)
      [] OTHER -> state

-----------------------------------------------------------------------------
(* Derived totals of CartProvider.                                         *)

RECURSIVE SumSeq(_)
SumSeq(s) == IF s = <<>> THEN 0 ELSE Head(s) + SumSeq(Tail(s))

LinePriceBaseOnly(item) == item.product.basePrice

\* The price of one line: the first variant with the line's color and size,
\* else the product's basePrice.
LinePrice(item) ==
    LET Match(v) == v.color = item.selectedColor /\ v.size = item.selectedSize
        i == FindIndex([k \in 1..Len(item.product.variants) |-> Match(item.product.variants[k])])
    IN  IF i >= 1 THEN item.product.variants[i].price ELSE item.product.basePrice

totalAmount(state) ==
    SumSeq([i \in 1..Len(state.items) |->
                LinePrice(state.items[i]) * state.items[i].quantity])

totalItems(state) ==
    SumSeq([i \in 1..Len(state.items) |-> state.items[i].quantity])

-----------------------------------------------------------------------------
(* JSON text and JSON.stringify / JSON.parse.                              *)
(* A string is the sequence of its JSON tokens; a JavaScript value is a    *)
(* tagged tree.  Every token and every tree node carries the same fields,  *)
(* so that any two of them can be compared.                                *)

TP(c) == [k |-> "punct", s |-> c, n |-> 0]      \* one of { } [ ] : ,
TS(str) == [k |-> "string", s |-> str, n |-> 0] \* a string literal
TN(num) == [k |-> "number", s |-> "", n |-> num]
TL(lit) == [k |-> "literal", s |-> lit, n |-> 0] \* null, true, false

JNum(num) == [t |-> "number", n |-> num, s |-> "", a |-> <<>>]
JStr(str) == [t |-> "string", n |-> 0, s |-> str, a |-> <<>>]
JLit(lit) == [t |-> "literal", n |-> 0, s |-> lit, a |-> <<>>]
JArr(elems) == [t |-> "array", n |-> 0, s |-> "", a |-> elems]
\* An object is the sequence of its members in insertion order.
JObj(members) == [t |-> "object", n |-> 0, s |-> "", a |-> members]
JMember(key, val) == [key |-> key, val |-> val]

IsPunct(toks, i, c) ==
    /\ i <= Len(toks)
    /\ toks[i].k = "punct"
    /\ toks[i].s = c

RECURSIVE JoinParts(_)
JoinParts(parts) ==
    IF parts = <<>> THEN <<>>
    ELSE IF Len(parts) = 1 THEN parts[1]
    ELSE parts[1] \o <<TP(",")>> \o JoinParts(Tail(parts))

\* The serialised members are bound once and then joined.
JoinComma(parts) == CHOOSE r \in {JoinParts(p) : p \in {parts}} : TRUE

\* JSON.stringify of a value tree.
RECURSIVE JSONstringify(_)
JSONstringify(v) ==
    CASE v.t = "number" -> <<TN(v.n)>>
      [] v.t = "string" -> <<TS(v.s)>>
      [] v.t = "literal" -> <<TL(v.s)>>
      [] v.t = "array" ->
            <<TP("[")>>
            \o JoinComma([i \in 1..Len(v.a) |-> JSONstringify(v.a[i])])
            \o <<TP("]")>>
      [] v.t = "object" ->
            <<TP("{")>>
            \o JoinComma([i \in 1..Len(v.a) |->
                    <<TS(v.a[i].key), TP(":")>> \o JSONstringify(v.a[i].val)])
            \o <<TP("}")>>

\* The recursive-descent reading of JSON.parse.  Each parser returns
\* [ok, val, pos]: whether it read a value, the value, and the index of the
\* first token after it.
ParseFail == [ok |-> FALSE, val |-> JLit("null"), pos |-> 0]

RECURSIVE ParseValue(_, _), ParseElements(_, _, _), ParseMembers(_, _, _)
ParseValue(toks, i) ==
    IF i > Len(toks) THEN ParseFail
    ELSE CASE toks[i].k = "number" -> [ok |-> TRUE, val |-> JNum(toks[i].n), pos |-> i + 1]
           [] toks[i].k = "string" -> [ok |-> TRUE, val |-> JStr(toks[i].s), pos |-> i + 1]
           [] toks[i].k = "literal" -> [ok |-> TRUE, val |-> JLit(toks[i].s), pos |-> i + 1]
           [] IsPunct(toks, i, "[") ->
                IF IsPunct(toks, i + 1, "]")
                THEN [ok |-> TRUE, val |-> JArr(<<>>), pos |-> i + 2]
                ELSE ParseElements(toks, i + 1, <<>>)
           [] IsPunct(toks, i, "{") ->
                IF IsPunct(toks, i + 1, "}")
                THEN [ok |-> TRUE, val |-> JObj(<<>>), pos |-> i + 2]
                ELSE ParseMembers(toks, i + 1, <<>>)
           [] OTHER -> ParseFail

\* The elements of a non-empty array, from the token after "[" or ",".
ParseElements(toks, i, acc) ==
    LET r == ParseValue(toks, i)
    IN  IF ~r.ok THEN ParseFail
        ELSE IF IsPunct(toks, r.pos, ",")
             THEN ParseElements(toks, r.pos + 1, Append(acc, r.val))
        ELSE IF IsPunct(toks, r.pos, "]")
             THEN [ok |-> TRUE, val |-> JArr(Append(acc, r.val)), pos |-> r.pos + 1]
        ELSE ParseFail

\* The members of a non-empty object, from the token after "{" or ",".
ParseMembers(toks, i, acc) ==
    IF ~(i <= Len(toks) /\ toks[i].k = "string" /\ IsPunct(toks, i + 1, ":"))
    THEN ParseFail
    ELSE LET r == ParseValue(toks, i + 2)
             m == JMember(toks[i].s, r.val)
         IN  IF ~r.ok THEN ParseFail
             ELSE IF IsPunct(toks, r.pos, ",")
                  THEN ParseMembers(toks, r.pos + 1, Append(acc, m))
             ELSE IF IsPunct(toks, r.pos, "}")
                  THEN [ok |-> TRUE, val |-> JObj(Append(acc, m)), pos |-> r.pos + 1]
             ELSE ParseFail

\* JSON.parse: [ok, val]; ok = FALSE stands for the SyntaxError it throws.
JSONparse(text) ==
    LET r == ParseValue(text, 1)
    IN  IF r.ok /\ r.pos = Len(text) + 1
        THEN [ok |-> TRUE, val |-> r.val]
        ELSE [ok |-> FALSE, val |-> JLit("null")]

\* Property access obj[key] on a parsed value: the last member with that key
\* (JSON.parse keeps the last of duplicate keys); HasKey is "not undefined".
HasKey(v, key) ==
    /\ v.t = "object"
    /\ \E i \in 1..Len(v.a) : v.a[i].key = key

GetKey(v, key) ==
    v.a[CHOOSE i \in 1..Len(v.a) :
            /\ v.a[i].key = key
            /\ \A j \in (i + 1)..Len(v.a) : v.a[j].key # key].val

-----------------------------------------------------------------------------
(* The cart state as a JavaScript value, and back.                         *)

VariantToJs(v) ==
    JObj(<<JMember("color", JStr(v.color)), JMember("size", JStr(v.size)),
           JMember("price", JNum(v.price))>>)

ProductToJs(p) ==
    JObj(<<JMember("id", JStr(p.id)), JMember("basePrice", JNum(p.basePrice)),
           JMember("variants",
                   JArr([i \in 1..Len(p.variants) |-> VariantToJs(p.variants[i])]))>>)

\* A line as addToCart builds it: { product, selectedColor, selectedSize, quantity }.
ItemToJs(item) ==
    JObj(<<JMember("product", ProductToJs(item.product)),
           JMember("selectedColor", JStr(item.selectedColor)),
           JMember("selectedSize", JStr(item.selectedSize)),
           JMember("quantity", JNum(item.quantity))>>)

CartStateToJs(state) ==
    JObj(<<JMember("items",
                   JArr([i \in 1..Len(state.items) |-> ItemToJs(state.items[i])]))>>)

VariantFromJs(v) ==
    [color |-> GetKey(v, "color").s, size |-> GetKey(v, "size").s,
     price |-> GetKey(v, "price").n]

ProductFromJs(v) ==
    LET vs == GetKey(v, "variants").a
    IN  [id |-> GetKey(v, "id").s, basePrice |-> GetKey(v, "basePrice").n,
         variants |-> [i \in 1..Len(vs) |-> VariantFromJs(vs[i])]]

ItemFromJs(v) ==
    [product |-> ProductFromJs(GetKey(v, "product")),
     selectedColor |-> GetKey(v, "selectedColor").s,
     selectedSize |-> GetKey(v, "selectedSize").s,
     quantity |-> GetKey(v, "quantity").n]

CartStateFromJs(v) ==
    LET arr == GetKey(v, "items").a
    IN  [items |-> [i \in 1..Len(arr) |-> ItemFromJs(arr[i])]]


-----------------------------------------------------------------------------
(* CartProvider: start-up from local storage, the save effect, the four    *)
(* operations of the context.                                              *)

Absent == [present |-> FALSE, text |-> <<>>]
Stored(text) == [present |-> TRUE, text |-> text]

\* JavaScript truthiness and typeof on a parsed value.
Truthy(v) ==
    CASE v.t = "literal" -> v.s = "true"
      [] v.t = "number" -> v.n # 0
      [] v.t = "string" -> v.s # ""
      [] OTHER -> TRUE

TypeofObject(v) == v.t \in {"object", "array"} \/ (v.t = "literal" /\ v.s = "null")

\* Array.isArray(parsed.items)
ItemsIsArray(v) == HasKey(v, "items") /\ GetKey(v, "items").t = "array"

\* The text JSON.stringify(cartState) writes.
Serialize(state) ==
    CHOOSE text \in {JSONstringify(js) : js \in {CartStateToJs(state)}} : TRUE

\* The start-up code of CartProvider: the state useReducer starts from, the
\* 'cart' entry it leaves, and whether an exception escaped it.
LoadCart(st) ==
    IF ~(st.present /\ st.text # <<>>)                      \* if (savedCart)
    THEN [cart |-> initialState, storage |-> st, threw |-> FALSE]
    ELSE LET r == JSONparse(st.text)
         IN  IF ~r.ok                                        \* catch (e)
             THEN [cart |-> initialState, storage |-> Absent, threw |-> FALSE]
             ELSE IF Truthy(r.val) /\ TypeofObject(r.val) /\ ItemsIsArray(r.val)
                  THEN [cart |-> CartStateFromJs(r.val), storage |-> st, threw |-> FALSE]
                  ELSE [cart |-> initialState, storage |-> Absent, threw |-> FALSE]

\* A line as addToCart builds its payload.
NewLine(p, c, s, q) ==
    [product |-> Catalog[p], selectedColor |-> c, selectedSize |-> s, quantity |-> q]

\* The quantity of the first line for a triple, 0 when the cart has none.
QuantityOf(state, p, c, s) ==
    LET Match(item) == SameLine(item, p, c, s)
        i == FindIndex([k \in 1..Len(state.items) |-> Match(state.items[k])])
    IN  IF i >= 1 THEN state.items[i].quantity ELSE 0

\* The 'cart' entries a browser may hold when the page is opened: none, the
\* empty string, text that is not JSON, JSON of another shape, and carts
\* written by an earlier session.
SampleCart == [items |-> <<NewLine("P1", "red", "M", 2)>>]

\* Text JSON.parse rejects.
NotJson ==
    { Stored(<<TP("{"), TS("items"), TP(":"), TP("[")>>),
      Stored(SubSeq(Serialize(SampleCart), 1, Len(Serialize(SampleCart)) - 1)),
      Stored(<<TP("{"), TS("items"), TP("["), TP("]"), TP("}")>>) }

\* JSON that is no object with an items array.
WrongShape ==
    { Stored(<<TL("null")>>),
      Stored(<<TN(0)>>),
      Stored(<<TP("["), TP("]")>>),
      Stored(<<TP("{"), TS("cart"), TP(":"), TP("["), TP("]"), TP("}")>>),
      Stored(<<TP("{"), TS("items"), TP(":"), TN(5), TP("}")>>) }

InitialStorage ==
    {Absent, Stored(<<>>)} \cup NotJson \cup WrongShape
    \cup {Stored(Serialize(initialState)), Stored(Serialize(SampleCart))}

Idle ==
    /\ coPc = "idle"
    /\ isProcessing = FALSE
    /\ coError = "null"
    /\ coAttempts = <<>>
    /\ coLeft = EmptyBag
    /\ coResult = "none"

FwIdle ==
    /\ fwPc = "idle"
    /\ fwArgs = [primary |-> "none", fallback |-> "none"]
    /\ fwAttempts = <<>>
    /\ fwResult = "none"

\* No services/api operation has been called.
ApiIdle ==
    /\ apiOp = "none"
    /\ apiPc = "idle"
    /\ apiAttempts = <<>>
    /\ apiError = "none"
    /\ apiResult = JLit("undefined")

\* AuthProvider's useState values before its first render.
AuthUnmounted ==
    /\ authPc = "unmounted"
    /\ currentUser = JLit("null")
    /\ isLoading = TRUE
    /\ authError = "null"
    /\ authRaised = "none"
    /\ exchange = [ok |-> FALSE, val |-> JLit("undefined"), message |-> "none"]

\* No session operation was started from a page, no protected route and no
\* callback page is rendered.
UiIdle ==
    /\ inFlight = [op \in {"login", "register", "logout"} |-> 0]
    /\ route = [restricted |-> FALSE, allowed |-> {}, shown |-> "none", from |-> ""]
    /\ callback = [mounted |-> FALSE, processing |-> FALSE, error |-> "null",
                   calls |-> 0]
    /\ home = [pc |-> "idle", attempts |-> 0, loading |-> TRUE, featured |-> <<>>,
               error |-> "null", source |-> "none", response |-> <<>>]
    /\ rejected = [token |-> "none", user |-> JLit("undefined")]
    /\ reducerRun = [started |-> FALSE, first |-> initialState, state |-> initialState,
                     payload |-> NewLine("P1", "red", "M", 1), results |-> <<>>]

\* The order-details modal is closed.
NoDetails == [order |-> 0, rider |-> ""]

\* No dashboard is shown.
PageIdle ==
    /\ dashboard = "none"
    /\ orderList = <<>>
    /\ allowedStatuses = <<>>
    /\ orderRiders = <<>>
    /\ riderList = <<>>
    /\ dashLoading = TRUE
    /\ pending = {}
    /\ dashError = "null"
    /\ dialog = 0
    /\ details = NoDetails
    /\ assigningRider = FALSE

DashIdle ==
    /\ PageIdle
    /\ handlers = EmptyBag
    /\ server = [orders |-> <<>>, riders |-> <<>>]

\* A browser without a session: nothing of the services is in use.
ServiceIdle ==
    /\ ApiIdle
    /\ AuthUnmounted
    /\ sessionUser = Absent
    /\ authToken = "none"
    /\ DashIdle
    /\ UiIdle

Init ==
    /\ phase = "unmounted"
    /\ cartState = initialState
    /\ storage \in InitialStorage
    /\ effectPending = FALSE
    /\ loadError = FALSE
    /\ Idle
    /\ FwIdle
    /\ ServiceIdle

\* The first render of CartProvider (lines 128-148); its save effect is then
\* pending.
Mount ==
    /\ phase = "unmounted"
    /\ LET r == LoadCart(storage)
       IN  /\ cartState' = r.cart
           /\ storage' = r.storage
           /\ loadError' = r.threw
    /\ phase' = "mounted"
    /\ effectPending' = TRUE
    /\ UNCHANGED <<coVars, fwVars>>
    /\ UNCHANGED serviceVars
    /\ UNCHANGED uiVars

\* What localStorage.setItem does: it writes the entry, or throws (the quota
\* is exceeded, or the store is not available).
SetItemOutcomes == {"written", "throws"}

\* useEffect(() => { try { localStorage.setItem('cart', JSON.stringify(cartState)) }
\* catch (e) { console.error(...) } }, [cartState]): when setItem throws, the
\* error is logged and the entry stays as it was.
SaveEffect ==
    /\ phase = "mounted"
    /\ effectPending
    /\ \E o \in SetItemOutcomes :
          storage' = IF o = "written" THEN Stored(Serialize(cartState)) ELSE storage
    /\ effectPending' = FALSE
    /\ UNCHANGED <<phase, cartState, loadError, coVars, fwVars>>
    /\ UNCHANGED serviceVars
    /\ UNCHANGED uiVars

DispatchSameObject(action) ==
    /\ phase = "mounted"
    /\ ~effectPending
    /\ cartState' = cartReducer(cartState, action)
    /\ effectPending' = (action.type = "ADD_TO_CART")
    /\ UNCHANGED <<phase, storage, loadError>>

\* dispatch(action) and the render that follows: every case of the reducer
\* returns a new state object, so the save effect is scheduled again.  The
\* effect of the previous render runs before the next render.
Dispatch(action) ==
    /\ phase = "mounted"
    /\ ~effectPending
    /\ cartState' = cartReducer(cartState, action)
    /\ effectPending' = TRUE
    /\ UNCHANGED <<phase, storage, loadError>>

addToCart(p, c, s, q) ==
    /\ QuantityOf(cartState, p, c, s) + q <= MaxQty
    /\ Dispatch([type |-> "ADD_TO_CART", payload |-> NewLine(p, c, s, q)])
    /\ UNCHANGED <<coVars, fwVars>>
    /\ UNCHANGED serviceVars

removeFromCart(p, c, s) ==
    /\ Dispatch([type |-> "REMOVE_FROM_CART",
                 payload |-> [productId |-> p, color |-> c, size |-> s]])
    /\ UNCHANGED <<coVars, fwVars>>
    /\ UNCHANGED serviceVars

updateQuantity(p, c, s, q) ==
    /\ Dispatch([type |-> "UPDATE_QUANTITY",
                 payload |-> [productId |-> p, color |-> c, size |-> s, quantity |-> q]])
    /\ UNCHANGED <<coVars, fwVars>>
    /\ UNCHANGED serviceVars

clearCart ==
    /\ Dispatch([type |-> "CLEAR_CART"])
    /\ UNCHANGED <<coVars, fwVars>>
    /\ UNCHANGED serviceVars
    /\ UNCHANGED uiVars

\* The page is reloaded or closed and opened again: memory is lost, local
\* storage stays.
Reload ==
    /\ phase = "mounted"
    /\ phase' = "unmounted"
    /\ cartState' = initialState
    /\ effectPending' = FALSE
    /\ loadError' = FALSE
    /\ coPc' = "idle"
    /\ isProcessing' = FALSE
    /\ coError' = "null"
    /\ coAttempts' = <<>>
    /\ coLeft' = EmptyBag
    /\ coResult' = "none"
    /\ UNCHANGED <<storage, fwVars>>
    /\ UNCHANGED serviceVars
    /\ UNCHANGED uiVars

AddStep(T) ==
    \E t \in T, q \in 1..MaxQty : addToCart(t[1], t[2], t[3], q)

RemoveStep(T) ==
    \E t \in T : removeFromCart(t[1], t[2], t[3])

UpdateStep(T) ==
    \E t \in T, q \in (-1)..MaxQty : updateQuantity(t[1], t[2], t[3], q)

-----------------------------------------------------------------------------
(* CheckoutPage.handleSubmit and orderAPI.createOrder.                     *)

\* What one axios request can end in: a 2xx response whose body carries the
\* order under data, a 2xx response whose body has no data field, a 2xx
\* response whose body is null, a non-2xx response whose body has an error
\* field, one whose body has a message field, one with neither, and no
\* response at all.
AxiosOutcomes ==
    {"ok", "ok_nodata", "ok_nobody", "rejected_error", "rejected_message",
     "rejected", "network"}

\* The promise of the request resolves: the status is 2xx.
AxiosResolves(o) == o \in {"ok", "ok_nodata", "ok_nobody"}

\* response.data.data can be read: response.data is an object.  On a null
\* body the expression throws a TypeError.
HasBody(o) == o \in {"ok", "ok_nodata"}

\* response.data.data of a response whose body is an object.
BodyData(o) == IF o = "ok" THEN "order" ELSE "undefined"

\* The message handleSubmit's catch block sets for the error createOrder
\* threw: the error of a rejected request, or the TypeError of a null body,
\* which has no response member.
CheckoutErrorOf(o) ==
    IF o = "rejected_error" THEN "Order validation failed"
    ELSE IF o = "rejected_message" THEN "server message"
    ELSE "An error occurred during checkout"

Request(path) == [path |-> path, outcome |-> "pending"]

Settle(attempts, o) == [attempts EXCEPT ![Len(attempts)].outcome = o]

\* The most createOrder calls of checkout pages that were left which await
\* a request at one time.
MaxLeft == 1

\* A CheckoutPage component is rendered anew (navigation to /checkout): its
\* useState values start over.  A handleSubmit of the page rendered before
\* that still awaits createOrder goes on with that page's closure; the new
\* page has issued no request.
CheckoutPageMount ==
    /\ phase = "mounted"
    /\ IF coPc \in {"primary", "fallback"}
       THEN /\ BagCardinality(coLeft) < MaxLeft
            /\ coLeft' = coLeft (+) SetToBag({coAttempts[Len(coAttempts)].path})
            /\ coAttempts' = <<>>
            /\ coResult' = "none"
       ELSE UNCHANGED <<coAttempts, coLeft, coResult>>
    /\ coPc' = "idle"
    /\ isProcessing' = FALSE
    /\ coError' = "null"
    /\ UNCHANGED <<cartVars, fwVars>>
    /\ UNCHANGED serviceVars
    /\ UNCHANGED uiVars

\* handleSubmit up to the first await inside createOrder.  The page renders
\* the form only while the cart has lines, and disables the button while
\* isProcessing.
handleSubmit ==
    /\ phase = "mounted"
    /\ coPc = "idle"
    /\ Len(cartState.items) > 0
    /\ ~isProcessing
    /\ isProcessing' = TRUE
    /\ coError' = "null"
    /\ coPc' = "primary"
    /\ coAttempts' = <<Request("/api/orders")>>
    /\ coResult' = "none"
    /\ UNCHANGED <<coLeft, cartVars, fwVars>>
    /\ UNCHANGED serviceVars
    /\ UNCHANGED uiVars

\* createOrder returned response.data.data: clearCart(), then navigate with
\* orderResponse._id, which throws into the catch block when the body had
\* no data.
OrderCreated(o) ==
    /\ Dispatch([type |-> "CLEAR_CART"])
    /\ coAttempts' = Settle(coAttempts, o)
    /\ coResult' = BodyData(o)
    /\ IF o = "ok"
       THEN /\ coPc' = "done"
            /\ UNCHANGED <<isProcessing, coError>>
       ELSE /\ coPc' = "idle"
            /\ coError' = "An error occurred during checkout"
            /\ isProcessing' = FALSE

OrderFailedClearsCart(o) ==
    /\ Dispatch([type |-> "CLEAR_CART"])
    /\ coAttempts' = Settle(coAttempts, o)
    /\ coResult' = "thrown"
    /\ coPc' = "idle"
    /\ coError' = CheckoutErrorOf(o)
    /\ isProcessing' = FALSE

\* createOrder threw: its outer catch rethrew the error of its last request,
\* or the TypeError of reading response.data.data on a null body.  The catch
\* block of handleSubmit sets the error and resets isProcessing.
OrderFailed(o) ==
    /\ coAttempts' = Settle(coAttempts, o)
    /\ coResult' = "thrown"
    /\ coPc' = "idle"
    /\ coError' = CheckoutErrorOf(o)
    /\ isProcessing' = FALSE
    /\ UNCHANGED cartVars

\* The request to /api/orders settles.  A rejection is caught by the inner
\* catch, which requests /orders; a 2xx response leaves the inner try, and
\* reading response.data.data returns or, on a null body, throws to the
\* outer catch: /orders is not requested.
CoPrimaryResponds ==
    /\ coPc = "primary"
    /\ \E o \in AxiosOutcomes :
          IF AxiosResolves(o)
          THEN IF HasBody(o) THEN OrderCreated(o) ELSE OrderFailed(o)
          ELSE /\ coAttempts' = Append(Settle(coAttempts, o), Request("/orders"))
               /\ coPc' = "fallback"
               /\ UNCHANGED <<isProcessing, coError, coResult, cartVars>>
    /\ UNCHANGED <<coLeft, fwVars>>
    /\ UNCHANGED serviceVars
    /\ UNCHANGED uiVars

\* The request to /orders settles.
CoFallbackResponds ==
    /\ coPc = "fallback"
    /\ \E o \in AxiosOutcomes :
          IF HasBody(o) THEN OrderCreated(o) ELSE OrderFailed(o)
    /\ UNCHANGED <<coLeft, fwVars>>
    /\ UNCHANGED serviceVars
    /\ UNCHANGED uiVars

\* The request to path p of the createOrder call of a page that was left
\* settles with o.  The call goes on as on a rendered page: a rejected
\* /api/orders is followed by /orders; a 2xx response with a null body makes
\* createOrder throw; when createOrder returns, clearCart() empties the cart
\* of the provider; setError and setIsProcessing of the catch block act on a
\* component that is rendered no more.
CoLeftSettles(p, o) ==
    /\ phase = "mounted"
    /\ BagIn(p, coLeft)
    /\ IF HasBody(o)
       THEN /\ Dispatch([type |-> "CLEAR_CART"])
            /\ coLeft' = coLeft (-) SetToBag({p})
       ELSE /\ coLeft' =
                  IF p = "/api/orders" /\ ~AxiosResolves(o)
                  THEN (coLeft (-) SetToBag({p})) (+) SetToBag({"/orders"})
                  ELSE coLeft (-) SetToBag({p})
            /\ UNCHANGED cartVars
    /\ UNCHANGED <<coPc, isProcessing, coError, coAttempts, coResult, fwVars>>
    /\ UNCHANGED serviceVars
    /\ UNCHANGED uiVars

CoLeftResponds ==
    \E p \in BagToSet(coLeft) : \E o \in AxiosOutcomes : CoLeftSettles(p, o)

-----------------------------------------------------------------------------
(* DataProvider.fetchWithFallback, in the two versions the repository      *)
(* holds: the first tries a third endpoint, '/user' + fallbackEndpoint.    *)

\* What one fetch can end in: a rejected promise, a response with
\* response.ok false, an ok response whose body is JSON (body1: an object
\* with a user under data, body2: an object without a data member, or the
\* JSON text null), an ok response whose body response.json() rejects.
FetchOutcomes ==
    { [kind |-> "network", body |-> "none"],
      [kind |-> "not_ok", body |-> "none"],
      [kind |-> "ok", body |-> "body1"],
      [kind |-> "ok", body |-> "body2"],
      [kind |-> "ok", body |-> "null"],
      [kind |-> "ok_badjson", body |-> "none"] }

\* The attempt returns from its try block.
FetchReturns(o) == o.kind = "ok"

FwCalls ==
    { [primary |-> "/auth/register", fallback |-> "/register", version |-> 1],
      [primary |-> "/auth/register", fallback |-> "/register", version |-> 2],
      [primary |-> "/api/orders", fallback |-> "/orders", version |-> 1] }

FwRequest(path) == [path |-> path, kind |-> "pending", body |-> "none"]

FwSettle(attempts, o) ==
    [attempts EXCEPT ![Len(attempts)].kind = o.kind, ![Len(attempts)].body = o.body]

\* The call, up to its first await.
fetchWithFallback ==
    /\ fwPc \in {"idle", "returned", "thrown"}
    /\ \E call \in FwCalls :
          /\ fwArgs' = call
          /\ fwAttempts' = <<FwRequest(call.primary)>>
    /\ fwPc' = "primary"
    /\ fwResult' = "none"
    /\ UNCHANGED <<cartVars, coVars>>
    /\ UNCHANGED serviceVars
    /\ UNCHANGED uiVars

FwReturn(o) ==
    /\ fwAttempts' = FwSettle(fwAttempts, o)
    /\ fwPc' = "returned"
    /\ fwResult' = o.body

FwTryNextNoStop(o, nextPc, path) ==
    /\ fwAttempts' = Append(FwSettle(fwAttempts, o), FwRequest(path))
    /\ fwPc' = nextPc
    /\ fwResult' = "none"

\* One try block: return the body, or go on to the catch block's request.
FwTryNext(o, nextPc, path) ==
    IF FetchReturns(o)
    THEN FwReturn(o)
    ELSE /\ fwAttempts' = Append(FwSettle(fwAttempts, o), FwRequest(path))
         /\ fwPc' = nextPc
         /\ fwResult' = "none"

FwThrow(o) ==
    /\ fwAttempts' = FwSettle(fwAttempts, o)
    /\ fwPc' = "thrown"
    /\ fwResult' = "none"

FwPrimaryResponds ==
    /\ fwPc = "primary"
    /\ \E o \in FetchOutcomes : FwTryNext(o, "fallback", fwArgs.fallback)
    /\ UNCHANGED <<fwArgs, cartVars, coVars>>
    /\ UNCHANGED serviceVars
    /\ UNCHANGED uiVars

FwFallbackResponds ==
    /\ fwPc = "fallback"
    /\ \E o \in FetchOutcomes :
          IF fwArgs.version = 1
          THEN FwTryNext(o, "third", "/user" \o fwArgs.fallback)
          ELSE IF FetchReturns(o) THEN FwReturn(o) ELSE FwThrow(o)
    /\ UNCHANGED <<fwArgs, cartVars, coVars>>
    /\ UNCHANGED serviceVars
    /\ UNCHANGED uiVars

FwThirdResponds ==
    /\ fwPc = "third"
    /\ \E o \in FetchOutcomes :
          IF FetchReturns(o) THEN FwReturn(o) ELSE FwThrow(o)
    /\ UNCHANGED <<fwArgs, cartVars, coVars>>
    /\ UNCHANGED serviceVars
    /\ UNCHANGED uiVars

-----------------------------------------------------------------------------
(* The user records the endpoints deliver.                                 *)

Last(seq) == seq[Len(seq)]

Null == JLit("null")
Undefined == JLit("undefined")

\* A User record as a JavaScript object.
UserJs(id, role) ==
    JObj(<<JMember("id", JStr(id)), JMember("name", JStr(id)),
           JMember("email", JStr(id)), JMember("role", JStr(role))>>)

Customer == UserJs("u1", "CUSTOMER")
Admin == UserJs("u2", "ADMIN")
Rider == UserJs("u3", "RIDER")
Users == {Customer, Admin, Rider}

\* A user record without a name field.
RiderWithoutName ==
    JObj(<<JMember("id", JStr("u4")), JMember("email", JStr("u4")),
           JMember("role", JStr("RIDER"))>>)

\* user.name is a string: user.name.split and user.name.charAt can be called.
NameIsString(user) ==
    /\ HasKey(user, "name")
    /\ GetKey(user, "name").t = "string"

\* An AuthResponse: the user under a user field.
AuthResponse(user) == JObj(<<JMember("success", JLit("true")), JMember("user", user)>>)

\* What a 2xx answer of the login and sign-in endpoints may carry: a user,
\* or an AuthResponse holding one.
UserPayloads == Users \cup {AuthResponse(u) : u \in Users}

-----------------------------------------------------------------------------
(* The operations of services/api: authService and orderAPI, productAPI.   *)
(* Every request goes through the axios instance whose baseURL is API_URL; *)
(* a path below is the part of the requested URL after API_URL.            *)

ApiOps ==
    {"login", "register", "getCurrentUser", "logout", "getProducts",
     "createOrder", "updateOrderStatus", "getAssignedOrders"}

\* The URLs an operation passes to axios, in the order of its nested try
\* blocks.  getAssignedOrders passes `${API_URL}/api/orders/assigned` last:
\* an absolute URL, which axios requests as it is, so its part after API_URL
\* is the first path again.
ApiPaths(op) ==
    CASE op = "login" -> <<"/auth/login", "/login">>
      [] op = "register" -> <<"/auth/register", "/register">>
      [] op = "getCurrentUser" -> <<"/auth/me">>
      [] op = "logout" -> <<"/auth/logout">>
      [] op = "getProducts" -> <<"/api/products", "/products">>
      [] op = "createOrder" -> <<"/api/orders", "/orders">>
      [] op = "updateOrderStatus" -> <<"/auth/me">>
      [] op = "getAssignedOrders" ->
            <<"/api/orders/assigned", "/orders/assigned", "/api/orders/assigned">>

\* The defaultMessage an operation passes to handleApiError.
DefaultMessage(op) ==
    CASE op = "login" -> "Login failed"
      [] op = "register" -> "Registration failed"
      [] op = "getCurrentUser" -> "Failed to get current user"
      [] op = "logout" -> "Logout failed"
      [] op = "updateOrderStatus" -> "Failed to update order status"
      [] op = "getAssignedOrders" -> "Failed to fetch assigned orders"
      [] OTHER -> "An error occurred"

\* The message of the Error handleApiError builds from a rejected axios
\* request; any other o stands for an error that is no axios error (it has
\* neither response nor request), as the TypeError of reading a member of a
\* null body.
handleApiError(o, defaultMessage) ==
    IF o \in {"rejected_message", "rejected_error", "rejected"}       \* error.response
    THEN IF o = "rejected_message"
         THEN "server message"
         ELSE "Error status: " \o defaultMessage
    ELSE IF o = "network"                                            \* error.request
         THEN "No response from server"
         ELSE defaultMessage

\* The message of the AxiosError axios itself rejects with.
AxiosMessage(o) ==
    IF o = "network" THEN "Network Error" ELSE "Request failed with status code"

\* The message of the TypeError of reading response.data.data on a null body.
NullBodyMessage == "Cannot read properties of null (reading 'data')"

\* What the operation throws when its last axios request was rejected with
\* o, or answered with a null body that its code cannot read.
ApiErrorOf(op, o) ==
    CASE op = "createOrder" ->                                       \* throw error
            IF o = "ok_nobody" THEN NullBodyMessage ELSE AxiosMessage(o)
      [] op = "getProducts" ->
            "Failed to fetch products: Failed to fetch products from API"
      [] OTHER -> handleApiError(o, DefaultMessage(op))

\* The next URL of the operation after a request whose try block was left
\* by an error, "none" when its try blocks hold no further axios request.
ApiNext(op, attempts) ==
    LET n == Len(attempts)
    IN  IF op = "updateOrderStatus"
        THEN IF n # 2 THEN "none"
             ELSE IF attempts[2].path = "/api/orders/:id/admin-update"
                  THEN "/orders/:id/admin-update"
                  ELSE "/orders/:id/status"
        ELSE IF n < Len(ApiPaths(op)) THEN ApiPaths(op)[n + 1] ELSE "none"

\* The operation is called: it runs up to its first await.
ApiStart(op) ==
    /\ apiPc \in {"idle", "returned", "thrown"}
    /\ apiOp' = op
    /\ apiAttempts' = <<Request(ApiPaths(op)[1])>>
    /\ apiPc' = IF op = "updateOrderStatus" THEN "me" ELSE "axios"
    /\ apiError' = "none"
    /\ apiResult' = Undefined
    /\ fwPc' = "idle"
    /\ fwArgs' = [primary |-> "none", fallback |-> "none"]
    /\ fwAttempts' = <<>>
    /\ fwResult' = "none"

\* The user data a 2xx response with outcome o may make the operation
\* return: response.data.data of login and register (a user, an
\* AuthResponse, or undefined when the body has no data member),
\* response.data.user of getCurrentUser.  What the other operations return
\* is not followed.
ApiResults(op, o) ==
    IF op \in {"login", "register"}
    THEN IF o = "ok" THEN UserPayloads ELSE {Undefined}
    ELSE IF op = "getCurrentUser" THEN Users \cup {Undefined}
    ELSE {Undefined}

ApiReturn(o) ==
    /\ apiAttempts' = Settle(apiAttempts, o)
    /\ apiPc' = "returned"
    /\ apiError' = "none"
    /\ apiResult' \in ApiResults(apiOp, o)

ApiThrow(o, message) ==
    /\ apiAttempts' = Settle(apiAttempts, o)
    /\ apiPc' = "thrown"
    /\ apiError' = message
    /\ apiResult' = Undefined

\* A page calls one of the operations.
ApiCall ==
    /\ \E op \in ApiOps : ApiStart(op)
    /\ UNCHANGED <<cartVars, coVars, authVars, dashVars>>
    /\ UNCHANGED uiVars

\* updateOrderStatus: authService.getCurrentUser() settles.  With a user it
\* goes on to the PUT under /api, to admin-update for an ADMIN; every failure
\* of getCurrentUser reaches the outer catch as a plain Error.
ApiMeResponds ==
    /\ apiPc = "me"
    /\ \E o \in AxiosOutcomes :
          IF o = "ok"
          THEN \E endpoint \in {"/api/orders/:id/status",
                                "/api/orders/:id/admin-update"} :
                  /\ apiAttempts' = Append(Settle(apiAttempts, o), Request(endpoint))
                  /\ apiPc' = "axios"
                  /\ apiError' = "none"
                  /\ UNCHANGED apiResult
          ELSE ApiThrow(o, handleApiError("thrown", DefaultMessage(apiOp)))
    /\ UNCHANGED <<apiOp, cartVars, coVars, fwVars, authVars, dashVars>>
    /\ UNCHANGED uiVars

\* The try block of the request is left by an error: the request was
\* rejected, or (login, register) response.data.data was read inside the try
\* block on a null body.
ApiTryFails(op, o) ==
    \/ ~AxiosResolves(o)
    \/ op \in {"login", "register"} /\ o = "ok_nobody"

\* The 2xx response with outcome o makes the operation throw after its
\* request: getProducts and getCurrentUser check the body, createOrder reads
\* response.data.data outside its inner try block.
ApiRejectsBody(op, o) ==
    \/ op \in {"getProducts", "getCurrentUser"} /\ o # "ok"
    \/ op = "createOrder" /\ o = "ok_nobody"

\* One axios request of the operation settles: the operation returns, goes
\* on to the request of its catch block, hands over to fetchWithFallback
\* (register), or throws.
ApiSettle(o) ==
    IF ~ApiTryFails(apiOp, o)
    THEN /\ IF ApiRejectsBody(apiOp, o)
            THEN ApiThrow(o, CASE apiOp = "getProducts" ->
                                    "Failed to fetch products: Invalid API response format"
                               [] apiOp = "createOrder" -> ApiErrorOf(apiOp, o)
                               [] OTHER -> handleApiError("thrown", DefaultMessage(apiOp)))
            ELSE ApiReturn(o)
         /\ authToken' = IF apiOp = "logout" THEN "none" ELSE authToken
         /\ UNCHANGED fwVars
    ELSE IF ApiNext(apiOp, apiAttempts) # "none"
         THEN /\ apiAttempts' = Append(Settle(apiAttempts, o),
                                       Request(ApiNext(apiOp, apiAttempts)))
              /\ UNCHANGED <<apiPc, apiError, apiResult, authToken, fwVars>>
         ELSE IF apiOp = "register"
              THEN /\ apiAttempts' = Settle(apiAttempts, o)
                   /\ apiPc' = "fetch"
                   /\ apiError' = "none"
                   /\ UNCHANGED apiResult
                   /\ \E version \in {1, 2} :
                         fwArgs' = [primary |-> "/auth/register",
                                    fallback |-> "/register", version |-> version]
                   /\ fwAttempts' = <<FwRequest("/auth/register")>>
                   /\ fwPc' = "primary"
                   /\ fwResult' = "none"
                   /\ UNCHANGED authToken
              ELSE /\ ApiThrow(o, ApiErrorOf(apiOp, o))
                   /\ UNCHANGED <<authToken, fwVars>>

ApiAxiosResponds ==
    /\ apiPc = "axios"
    /\ \E o \in AxiosOutcomes : ApiSettle(o)
    /\ UNCHANGED <<apiOp, cartVars, coVars, dashVars>>
    /\ UNCHANGED <<authPc, currentUser, isLoading, authError, sessionUser, authRaised, exchange>>
    /\ UNCHANGED uiVars

\* data.data of a body fetchWithFallback returned (not null).
FetchBodyData(body) == IF body = "body1" THEN Customer ELSE Undefined

\* register: DataProvider.fetchWithFallback has returned or thrown; register
\* returns data.data, which throws a TypeError when the body was null.  No
\* error here is an axios error, so handleApiError gives the default message.
ApiFetchSettles ==
    /\ apiPc = "fetch"
    /\ fwPc \in {"returned", "thrown"}
    /\ IF fwPc = "returned" /\ fwResult # "null"
       THEN /\ apiPc' = "returned"
            /\ apiError' = "none"
            /\ apiResult' = FetchBodyData(fwResult)
       ELSE /\ apiPc' = "thrown"
            /\ apiError' = handleApiError("thrown", DefaultMessage(apiOp))
            /\ apiResult' = Undefined
    /\ UNCHANGED <<apiOp, apiAttempts, cartVars, coVars, fwVars, authVars, dashVars>>
    /\ UNCHANGED uiVars

-----------------------------------------------------------------------------
(* AuthProvider: checkAuth on the first render, login, logout and the two  *)
(* completions of an external sign-in.  The provider's functions are taken *)
(* one at a time: a function is called when no other awaits its call.      *)

UserOfKeepsResponse(response) == response

\* response.user when response has a truthy user field, else response.
UserOf(response) ==
    IF HasKey(response, "user") /\ Truthy(GetKey(response, "user"))
    THEN GetKey(response, "user")
    ELSE response

\* user.role === 'ADMIN' || user.role === 'RIDER'
IsAdminOrRider(user) ==
    /\ HasKey(user, "role")
    /\ GetKey(user, "role") \in {JStr("ADMIN"), JStr("RIDER")}

\* JSON.stringify(user)
SerializeUser(user) ==
    CHOOSE text \in {JSONstringify(js) : js \in {user}} : TRUE

\* The 'currentUser' entries a tab may hold when the page is loaded: none,
\* the empty string, text that is not JSON, JSON that is no user record, and
\* users cached by an earlier page of the session.
InvalidSnapshots ==
    { Stored(<<TP("{"), TS("id"), TP(":")>>),
      Stored(SubSeq(SerializeUser(Customer), 1, Len(SerializeUser(Customer)) - 1)) }

WrongShapeSnapshots ==
    { Stored(<<TN(5)>>),
      Stored(<<TP("["), TP("]")>>),
      Stored(<<TP("{"), TS("items"), TP(":"), TP("["), TP("]"), TP("}")>>) }

InitialSnapshots ==
    {Absent, Stored(<<>>)} \cup InvalidSnapshots \cup WrongShapeSnapshots
    \cup {Stored(SerializeUser(Customer)), Stored(SerializeUser(Admin))}

\* The bearer tokens the browser may hold.
Tokens == {"token1"}

\* The message of the error a storage write throws when the store refuses
\* it (quota exceeded, storage disabled).
SetItemMessage == "QuotaExceededError"

\* setCurrentUser(user); sessionStorage.setItem('currentUser',
\* JSON.stringify(user)), where setItem wrote the entry or threw (o): the
\* user is set before the write is tried.
Adopt(user, o) ==
    /\ currentUser' = user
    /\ sessionUser' = IF o = "written" THEN Stored(SerializeUser(user))
                      ELSE sessionUser

\* The catch block without the finally block.
RaiseKeepsLoading(message) ==
    /\ authError' = message
    /\ authRaised' = message
    /\ UNCHANGED <<currentUser, sessionUser, isLoading>>

\* catch (err) { setError(err.message); throw err } finally { setIsLoading(false) }
Raise(message) ==
    /\ authError' = message
    /\ authRaised' = message
    /\ isLoading' = FALSE
    /\ UNCHANGED <<currentUser, sessionUser>>

\* setCurrentUser(user); sessionStorage.setItem(...); return user, inside
\* the try block of login, register and the two completions: when setItem
\* throws the user is current already, and the catch block sets the error
\* and throws it again; the finally block ends the loading.
AdoptAndReturn(user) ==
    \E o \in SetItemOutcomes :
       /\ Adopt(user, o)
       /\ isLoading' = FALSE
       /\ authError' = IF o = "written" THEN authError ELSE SetItemMessage
       /\ authRaised' = IF o = "written" THEN authRaised ELSE SetItemMessage

\* checkAuth, run by the effect of the first render, up to its first await.
checkAuth ==
    /\ authPc = "unmounted"
    /\ LET storedUser == sessionUser
           hasStored == storedUser.present /\ storedUser.text # <<>>
           r == IF hasStored THEN JSONparse(storedUser.text)
                ELSE [ok |-> FALSE, val |-> Null]
       IN  IF hasStored /\ r.ok
           THEN /\ currentUser' = r.val
                /\ isLoading' = FALSE
                /\ authPc' = "idle"
                /\ UNCHANGED <<sessionUser, apiVars, fwVars>>
           ELSE /\ sessionUser' = IF hasStored THEN Absent ELSE sessionUser
                /\ IF authToken = "none"
                   THEN /\ isLoading' = FALSE
                        /\ authPc' = "idle"
                        /\ UNCHANGED <<currentUser, apiVars, fwVars>>
                   ELSE /\ ApiStart("getCurrentUser")
                        /\ authPc' = "checkAuth"
                        /\ UNCHANGED <<currentUser, isLoading>>
    /\ UNCHANGED <<authError, authToken, authRaised, exchange, cartVars, coVars, dashVars>>
    /\ UNCHANGED uiVars

checkAuthSettlesNoCache ==
    /\ authPc = "checkAuth"
    /\ apiPc \in {"returned", "thrown"}
    /\ IF apiPc = "returned"
       THEN LET user == apiResult
            IN  /\ currentUser' = IF Truthy(user) THEN user ELSE currentUser
                /\ UNCHANGED sessionUser
       ELSE UNCHANGED <<currentUser, sessionUser>>
    /\ isLoading' = FALSE
    /\ authPc' = "idle"
    /\ UNCHANGED <<authError, authToken, authRaised, exchange>>
    /\ UNCHANGED <<apiVars, fwVars, cartVars, coVars, dashVars>>
    /\ UNCHANGED uiVars

\* authService.getCurrentUser() has settled: a truthy user is adopted and
\* cached, an error is logged, the error of a refused write too.
checkAuthSettles ==
    /\ authPc = "checkAuth"
    /\ apiPc \in {"returned", "thrown"}
    /\ IF apiPc = "returned"
       THEN LET user == apiResult
            IN  IF Truthy(user)
                THEN \E o \in SetItemOutcomes : Adopt(user, o)
                ELSE UNCHANGED <<currentUser, sessionUser>>
       ELSE UNCHANGED <<currentUser, sessionUser>>
    /\ isLoading' = FALSE
    /\ authPc' = "idle"
    /\ UNCHANGED <<authError, authToken, authRaised, exchange>>
    /\ UNCHANGED <<apiVars, fwVars, cartVars, coVars, dashVars>>
    /\ UNCHANGED uiVars

\* login(email, password) up to await authService.login.
login ==
    /\ authPc = "idle"
    /\ isLoading' = TRUE
    /\ authError' = "null"
    /\ authRaised' = "none"
    /\ ApiStart("login")
    /\ authPc' = "login"
    /\ UNCHANGED <<currentUser, sessionUser, authToken, exchange, cartVars, coVars, dashVars>>
    /\ UNCHANGED uiVars

\* authService.login has settled.
loginSettles ==
    /\ authPc = "login"
    /\ apiPc \in {"returned", "thrown"}
    /\ IF apiPc = "thrown"
       THEN Raise(apiError)
       ELSE LET response == apiResult
            IN  IF Truthy(response) /\ TypeofObject(response)
                THEN AdoptAndReturn(UserOf(response))
                ELSE Raise("Invalid response format from login")
    /\ authPc' = "idle"
    /\ UNCHANGED <<authToken, exchange, apiVars, fwVars, cartVars, coVars, dashVars>>
    /\ UNCHANGED uiVars

\* What authService.getGoogleAuthUrl() gives: the URL, or the TypeError of
\* calling a member the service object does not have.
GoogleAuthUrlOutcomes == {"url", "not_a_function"}

\* loginWithGoogle(): it has no await, so it runs whole.  window.location.href
\* is assigned the URL; an error is set, and thrown again; the finally
\* block ends the loading.
loginWithGoogle ==
    /\ authPc = "idle"
    /\ \E o \in GoogleAuthUrlOutcomes :
          IF o = "url"
          THEN /\ authError' = "null"
               /\ authRaised' = "none"
               /\ isLoading' = FALSE
               /\ UNCHANGED <<currentUser, sessionUser>>
          ELSE Raise("authService.getGoogleAuthUrl is not a function")
    /\ UNCHANGED <<authPc, authToken, exchange, apiVars, fwVars, cartVars, coVars, dashVars>>
    /\ UNCHANGED uiVars

\* logout() up to await authService.logout.
logout ==
    /\ authPc = "idle"
    /\ authRaised' = "none"
    /\ ApiStart("logout")
    /\ authPc' = "logout"
    /\ UNCHANGED <<currentUser, isLoading, authError, sessionUser, authToken, exchange>>
    /\ UNCHANGED <<cartVars, coVars, dashVars>>
    /\ UNCHANGED uiVars

\* authService.logout has settled: after it returned the user and both
\* entries are cleared; its error is logged.
logoutSettles ==
    /\ authPc = "logout"
    /\ apiPc \in {"returned", "thrown"}
    /\ IF apiPc = "returned"
       THEN /\ currentUser' = Null
            /\ sessionUser' = Absent
            /\ authToken' = "none"
       ELSE UNCHANGED <<currentUser, sessionUser, authToken>>
    /\ authPc' = "idle"
    /\ UNCHANGED <<isLoading, authError, authRaised, exchange>>
    /\ UNCHANGED <<apiVars, fwVars, cartVars, coVars, dashVars>>
    /\ UNCHANGED uiVars

\* What the exchange of an external sign-in settles with: a value, or an
\* error with a message.
Exchanged(values) ==
    {[ok |-> TRUE, val |-> v, message |-> "none"] : v \in values}
    \cup {[ok |-> FALSE, val |-> Undefined, message |-> "exchange failed"]}

NoExchange == [ok |-> FALSE, val |-> Undefined, message |-> "none"]
PendingExchange == [ok |-> FALSE, val |-> Undefined, message |-> "pending"]

\* authService.handleAuthCallback(token): a user record, or none.
TokenExchangeOutcomes == Exchanged(Users \cup {Undefined})

\* authService.authenticateWithGoogle(credential): a user, an AuthResponse,
\* or none.
GoogleExchangeOutcomes == Exchanged(UserPayloads \cup {Undefined})

\* handleAuthToken(token) up to await authService.handleAuthCallback(token):
\* the token is stored before the exchange.  When localStorage.setItem
\* throws there is no exchange: the call runs whole, through its catch and
\* finally blocks.
handleAuthTokenCalled(token) ==
    /\ authPc = "idle"
    /\ \E o \in SetItemOutcomes :
          IF o = "written"
          THEN /\ isLoading' = TRUE
               /\ authError' = "null"
               /\ authRaised' = "none"
               /\ authToken' = token
               /\ authPc' = "handleAuthToken"
               /\ exchange' = PendingExchange
               /\ UNCHANGED <<currentUser, sessionUser>>
          ELSE /\ Raise(SetItemMessage)
               /\ UNCHANGED <<authToken, authPc, exchange>>
    /\ UNCHANGED <<apiVars, fwVars, cartVars, coVars, dashVars>>

handleAuthToken ==
    /\ \E token \in Tokens : handleAuthTokenCalled(token)
    /\ UNCHANGED uiVars

\* The awaited exchange settles.
ExchangeSettles ==
    /\ authPc \in {"handleAuthToken", "handleGoogleCallback"}
    /\ exchange = PendingExchange
    /\ exchange' \in IF authPc = "handleAuthToken"
                    THEN TokenExchangeOutcomes ELSE GoogleExchangeOutcomes
    /\ UNCHANGED <<authPc, currentUser, isLoading, authError, sessionUser,
                   authToken, authRaised>>
    /\ UNCHANGED <<apiVars, fwVars, cartVars, coVars, dashVars>>
    /\ UNCHANGED uiVars

AdoptAnyRole(user) == AdoptAndReturn(user)

\* A completion adopts the user unless its role is ADMIN or RIDER.
AdoptCustomer(user) ==
    IF IsAdminOrRider(user)
    THEN Raise("Google login is only available for customers")
    ELSE AdoptAndReturn(user)

\* handleAuthToken after the await.
handleAuthTokenReturns ==
    /\ authPc = "handleAuthToken"
    /\ exchange # PendingExchange
    /\ IF ~exchange.ok THEN Raise(exchange.message)
       ELSE IF ~Truthy(exchange.val)
            THEN Raise("Failed to get user details from token")
            ELSE AdoptCustomer(exchange.val)
    /\ rejected' = IF exchange.ok /\ Truthy(exchange.val) /\ IsAdminOrRider(exchange.val)
                   THEN [token |-> authToken, user |-> exchange.val]
                   ELSE rejected
    /\ authPc' = "idle"
    /\ UNCHANGED <<authToken, exchange, apiVars, fwVars, cartVars, coVars, dashVars>>

handleAuthTokenSettles ==
    /\ handleAuthTokenReturns
    /\ UNCHANGED <<inFlight, pageVars>>

\* handleGoogleCallback(tokenResponse) up to await
\* authService.authenticateWithGoogle.
handleGoogleCallback ==
    /\ authPc = "idle"
    /\ isLoading' = TRUE
    /\ authError' = "null"
    /\ authRaised' = "none"
    /\ authPc' = "handleGoogleCallback"
    /\ exchange' = PendingExchange
    /\ UNCHANGED <<currentUser, sessionUser, authToken>>
    /\ UNCHANGED <<apiVars, fwVars, cartVars, coVars, dashVars>>
    /\ UNCHANGED uiVars

\* handleGoogleCallback after the await.
handleGoogleCallbackSettles ==
    /\ authPc = "handleGoogleCallback"
    /\ exchange # PendingExchange
    /\ IF ~exchange.ok THEN Raise(exchange.message)
       ELSE IF Truthy(exchange.val) /\ TypeofObject(exchange.val)
            THEN AdoptCustomer(UserOf(exchange.val))
            ELSE Raise("Invalid response format from Google login")
    /\ authPc' = "idle"
    /\ UNCHANGED <<authToken, exchange, apiVars, fwVars, cartVars, coVars, dashVars>>
    /\ UNCHANGED uiVars

\* The page is loaded again: the state in memory starts over, the
\* sessionStorage and localStorage entries stay.
AuthReload ==
    /\ authPc # "unmounted"
    /\ authPc' = "unmounted"
    /\ currentUser' = JLit("null")
    /\ isLoading' = TRUE
    /\ authError' = "null"
    /\ authRaised' = "none"
    /\ exchange' = [ok |-> FALSE, val |-> JLit("undefined"), message |-> "none"]
    /\ apiOp' = "none"
    /\ apiPc' = "idle"
    /\ apiAttempts' = <<>>
    /\ apiError' = "none"
    /\ apiResult' = JLit("undefined")
    /\ fwPc' = "idle"
    /\ fwArgs' = [primary |-> "none", fallback |-> "none"]
    /\ fwAttempts' = <<>>
    /\ fwResult' = "none"
    /\ UNCHANGED <<sessionUser, authToken, cartVars, coVars, dashVars>>
    /\ UNCHANGED uiVars

-----------------------------------------------------------------------------
(* The order dashboards: RiderDashboard, and the two AdminDashboard pages  *)
(* of the repository ("admin": the page with rider assignment;             *)
(* "adminOrders": the page without).  Each row of the order list offers    *)
(* the statuses its getAllowedStatusesFor... returns for order.status.     *)

MaxOrders == 2

\* The status strings an order of the API may carry.
OrderStatuses ==
    {"PLACED", "PAID", "SHIPPED", "IN_TRANSIT", "ON_THE_WAY",
     "DELIVERED", "UNDELIVERED", "NOT_DELIVERED"}

Dashboards == {"rider", "admin", "adminOrders"}

getAllowedStatusesForRiderAlsoPaid(currentStatus) ==
    CASE currentStatus = "PAID" -> <<"SHIPPED">>
      [] currentStatus = "SHIPPED" -> <<"DELIVERED", "NOT_DELIVERED">>
      [] OTHER -> <<>>

\* RiderDashboard
getAllowedStatusesForRider(currentStatus) ==
    CASE currentStatus = "SHIPPED" -> <<"DELIVERED", "NOT_DELIVERED">>
      [] OTHER -> <<>>

getAllowedStatusesForAdminRetry(currentStatus) ==
    CASE currentStatus = "PAID" -> <<"SHIPPED">>
      [] currentStatus = "SHIPPED" -> <<"DELIVERED", "NOT_DELIVERED">>
      [] currentStatus = "DELIVERED" -> <<>>
      [] currentStatus = "NOT_DELIVERED" -> <<"DELIVERED">>
      [] OTHER -> <<>>

\* AdminDashboard with rider assignment
getAllowedStatusesForAdmin(currentStatus) ==
    CASE currentStatus = "PAID" -> <<"SHIPPED">>
      [] currentStatus = "SHIPPED" -> <<"DELIVERED", "NOT_DELIVERED">>
      [] currentStatus = "DELIVERED" -> <<>>
      [] currentStatus = "NOT_DELIVERED" -> <<>>
      [] OTHER -> <<>>

getAllowedStatusesForAdminOrdersBack(currentStatus) ==
    CASE currentStatus = "PAID" -> <<"SHIPPED">>
      [] currentStatus = "SHIPPED" -> <<"IN_TRANSIT">>
      [] currentStatus = "IN_TRANSIT" -> <<"SHIPPED">>
      [] OTHER -> <<>>

\* AdminDashboard without rider assignment: its getAllowedStatusesForAdmin
getAllowedStatusesForAdminOrders(currentStatus) ==
    CASE currentStatus = "PAID" -> <<"SHIPPED">>
      [] currentStatus = "SHIPPED" -> <<"IN_TRANSIT">>
      [] OTHER -> <<>>

\* What a row of dashboard d offers for an order of the given status.
AllowedFor(d, status) ==
    CASE d = "rider" -> getAllowedStatusesForRider(status)
      [] d = "admin" -> getAllowedStatusesForAdmin(status)
      [] OTHER -> getAllowedStatusesForAdminOrders(status)

\* The render of the order list: one call per order.
RenderRows(d, orders) ==
    [i \in 1..Len(orders) |-> AllowedFor(d, orders[i])]

\* The order lists a response of the orders request may carry; "" stands
\* for an order without a status.
ResponseOrders ==
    UNION {[1..n -> OrderStatuses \cup {""}] : n \in 0..MaxOrders}

\* RiderDashboard: status: order.status || OrderStatus.PAID
TransformedOrders(orders) ==
    [i \in 1..Len(orders) |-> IF orders[i] = "" THEN "PAID" ELSE orders[i]]

\* The orders the server holds, as the page shows them.
ShownOrders(d) ==
    IF d = "rider" THEN TransformedOrders(server.orders) ELSE server.orders

\* RiderDashboard: const riderId = currentUser?.id
riderId ==
    IF HasKey(currentUser, "id") THEN GetKey(currentUser, "id") ELSE Undefined

\* AdminDashboard: currentUser && currentUser.role === 'ADMIN'
IsAdminUser ==
    /\ Truthy(currentUser)
    /\ HasKey(currentUser, "role")
    /\ GetKey(currentUser, "role") = JStr("ADMIN")

\* The requests the effect of the first render starts: RiderDashboard calls
\* fetchOrders when riderId is truthy; the admin pages call fetchOrders, and
\* the page with rider assignment fetchRiders, for a user of role ADMIN.
EffectRequests(d) ==
    CASE d = "rider" -> IF Truthy(riderId) THEN {"orders"} ELSE {}
      [] d = "admin" -> IF IsAdminUser THEN {"orders", "riders"} ELSE {}
      [] OTHER -> IF IsAdminUser THEN {"orders"} ELSE {}

\* RiderDashboard renders currentUser?.name.charAt(0): the render throws for
\* a user whose name is no string, and React takes the page down.
RiderDashboardRenders ==
    currentUser \in {Null, Undefined} \/ NameIsString(currentUser)

\* The first effect of an admin page: navigate('/login') without a user,
\* navigate('/') for a user whose role is not ADMIN.
AdminNavigatesTo ==
    IF ~Truthy(currentUser) THEN "/login"
    ELSE IF ~HasKey(currentUser, "role") \/ GetKey(currentUser, "role") # JStr("ADMIN")
         THEN "/"
         ELSE "none"

\* A dashboard page is opened: its list is empty and loading is true.  The
\* effect starts the requests; RiderDashboard without a rider id sets its
\* error and ends the loading; an admin page without an admin user starts
\* no request and navigates away at once, which takes the page down (where
\* the route leads from there is not followed); a RiderDashboard whose
\* render throws is never shown.  Handlers of pages left before go on.
DashboardMount ==
    /\ dashboard \notin Dashboards \cup {"error"}
    /\ \E d \in Dashboards :
          IF d = "rider" /\ ~RiderDashboardRenders
          THEN /\ dashboard' = "error"
               /\ pending' = {}
               /\ dashError' = "null"
               /\ dashLoading' = TRUE
          ELSE IF d # "rider" /\ AdminNavigatesTo # "none"
          THEN /\ dashboard' = AdminNavigatesTo
               /\ pending' = {}
               /\ dashError' = "null"
               /\ dashLoading' = TRUE
          ELSE /\ dashboard' = d
               /\ pending' = EffectRequests(d)
               /\ IF d = "rider" /\ ~Truthy(riderId)
                  THEN /\ dashError' = "User identification error. Please login again."
                       /\ dashLoading' = FALSE
                  ELSE /\ dashError' = "null"
                       /\ dashLoading' = TRUE
    /\ orderList' = <<>>
    /\ allowedStatuses' = <<>>
    /\ orderRiders' = <<>>
    /\ riderList' = <<>>
    /\ dialog' = 0
    /\ details' = NoDetails
    /\ assigningRider' = FALSE
    /\ UNCHANGED <<handlers, server>>
    /\ UNCHANGED <<cartVars, coVars, fwVars, apiVars, authVars>>
    /\ UNCHANGED uiVars

\* The rejections of a request of the dashboards, as axios reports them.
Rejections == {"rejected_error", "rejected_message", "rejected", "network"}

\* What a request for the orders settles with: a success response with the
\* orders ("ok"), without data or with data null, a response without
\* success, with or without a message, a response without a body or with
\* the body null, or a rejection.
OrdersOutcomes ==
    {"ok", "no_data", "null_data", "no_success", "no_success_message", "no_body",
     "null_body"} \cup Rejections

\* The message of the TypeError of reading a member of undefined or null.
CannotRead(of, member) ==
    "Cannot read properties of " \o of \o " (reading '" \o member \o "')"

\* The message fetchOrders sets when the request gave no orders.
FetchOrdersError(d, o) ==
    IF d = "rider"
    THEN CASE o = "no_success" -> "Failed to fetch orders: Unknown error"
           [] o = "no_success_message" -> "Failed to fetch orders: server message"
           [] o = "no_data" ->
                 "Error fetching your assigned orders: "
                    \o CannotRead("undefined", "map")
           [] o = "null_data" ->
                 "Error fetching your assigned orders: " \o CannotRead("null", "map")
           [] o = "no_body" ->
                 "Error fetching your assigned orders: "
                    \o CannotRead("undefined", "success")
           [] o = "null_body" ->
                 "Error fetching your assigned orders: "
                    \o CannotRead("null", "success")
           [] OTHER ->
                 "Error fetching your assigned orders: "
                    \o handleApiError(o, DefaultMessage("getAssignedOrders"))
    ELSE IF o \in Rejections
         THEN handleApiError(o, "Failed to fetch orders")
         ELSE "Failed to load orders data."

\* The list is replaced by the orders of a success response and the rows are
\* rendered from it.
SetOrderList ==
    /\ orderList' = ShownOrders(dashboard)
    /\ allowedStatuses' = RenderRows(dashboard, orderList')
    /\ orderRiders' = server.riders

\* fetchOrders of the effect: the response reports success.
fetchOrdersSucceeds ==
    /\ dashboard \in Dashboards
    /\ "orders" \in pending
    /\ SetOrderList
    /\ dashLoading' = FALSE
    /\ pending' = pending \ {"orders"}
    /\ UNCHANGED <<dashboard, riderList, dashError, handlers, dialog, details,
                   assigningRider, server>>
    /\ UNCHANGED <<cartVars, coVars, fwVars, apiVars, authVars>>
    /\ UNCHANGED uiVars

\* fetchOrders of the effect: the request failed or reported no success; the
\* error is set and the list stays.
fetchOrdersFails ==
    /\ dashboard \in Dashboards
    /\ "orders" \in pending
    /\ \E o \in OrdersOutcomes \ {"ok"} : dashError' = FetchOrdersError(dashboard, o)
    /\ dashLoading' = FALSE
    /\ pending' = pending \ {"orders"}
    /\ UNCHANGED <<dashboard, orderList, allowedStatuses, orderRiders, riderList,
                   handlers, dialog, details, assigningRider, server>>
    /\ UNCHANGED <<cartVars, coVars, fwVars, apiVars, authVars>>
    /\ UNCHANGED uiVars

\* Most handlers of the dashboards awaiting a call at one time.
MaxHandlers == 2

\* A handler of the page shown that awaits a call: its kind ("status",
\* "assign", "unassign"), its page and whether that page is still rendered
\* (live), the call it awaits (pc), the order and the status it was called
\* with, the riderList and the order's rider of the render it was created
\* in, which autoAssignRider reads, and the rider it sent to assignRider.
Handler(kind, pc, order) ==
    [kind |-> kind, page |-> dashboard, live |-> TRUE, pc |-> pc, order |-> order,
     status |-> "", riders |-> <<>>, rider |-> "", sent |-> ""]

Awaiting == BagToSet(handlers)

\* A handler starts; the handler h goes on as next; the handler h returns.
Starts(h) ==
    /\ BagCardinality(handlers) < MaxHandlers
    /\ handlers' = handlers (+) SetToBag({h})

GoesOn(h, next) == handlers' = (handlers (-) SetToBag({h})) (+) SetToBag({next})

Returns(h) == handlers' = handlers (-) SetToBag({h})

\* The handlers that go on when their page is left, as handlers of a page
\* that is rendered no more.  A handler awaiting fetchOrders has nothing
\* left to do but to set the state of its page.
LeftBehind ==
    LET going == {h \in Awaiting : h.pc # "fetch"}
        left == {[h EXCEPT !.live = FALSE] : h \in going}
    IN  [h \in left |->
            CopiesIn(h, handlers) + CopiesIn([h EXCEPT !.live = TRUE], handlers)]

\* The page is left: its state is gone, and what its requests for the lists
\* are answered changes nothing any more; its handlers go on.
DashboardLeave ==
    /\ dashboard \in Dashboards
    /\ dashboard' = "none"
    /\ orderList' = <<>>
    /\ allowedStatuses' = <<>>
    /\ orderRiders' = <<>>
    /\ riderList' = <<>>
    /\ dashLoading' = TRUE
    /\ pending' = {}
    /\ dashError' = "null"
    /\ handlers' = LeftBehind
    /\ dialog' = 0
    /\ details' = NoDetails
    /\ assigningRider' = FALSE
    /\ UNCHANGED server
    /\ UNCHANGED <<cartVars, coVars, fwVars, apiVars, authVars>>
    /\ UNCHANGED uiVars

\* The rider lists the riders request may return.
RiderLists == {<<>>, <<"r1">>, <<"r1", "r2">>}

\* AdminDashboard with rider assignment: fetchRiders of the effect returns
\* a success response with the riders.
fetchRidersSucceeds ==
    /\ dashboard = "admin"
    /\ "riders" \in pending
    /\ \E riders \in RiderLists : riderList' = riders
    /\ pending' = pending \ {"riders"}
    /\ UNCHANGED <<dashboard, orderList, allowedStatuses, orderRiders, dashLoading,
                   dashError, handlers, dialog, details, assigningRider, server>>
    /\ UNCHANGED <<cartVars, coVars, fwVars, apiVars, authVars>>
    /\ UNCHANGED uiVars

\* The message of the Error a call of orderAPI that is not in the sources
\* (getAllRiders, assignRider, unassignRider) rejects with.
RejectedMessage == "server message"

\* fetchRiders of the effect: the response reports no success, or the request
\* is rejected; the error is set and the rider list stays.
fetchRidersFails ==
    /\ dashboard = "admin"
    /\ "riders" \in pending
    /\ \E message \in {"Failed to load riders data.", RejectedMessage} :
          dashError' = message
    /\ pending' = pending \ {"riders"}
    /\ UNCHANGED <<dashboard, orderList, allowedStatuses, orderRiders, riderList,
                   dashLoading, handlers, dialog, details, assigningRider, server>>
    /\ UNCHANGED <<cartVars, coVars, fwVars, apiVars, authVars>>
    /\ UNCHANGED uiVars

\* The messages the pages show.
UpdateFailedMessage(d) ==
    IF d = "rider" THEN "Failed to update order status"
    ELSE "Failed to update order status."

UpdateThrownMessage(d, message) ==
    IF d = "rider" THEN "Error updating order status: " \o message ELSE message

\* The rows of the order list are on the page: RiderDashboard renders them
\* when isLoading is false, the admin pages when loading is false.
RowsShown ==
    /\ dashboard \in Dashboards
    /\ ~dashLoading

\* handleStatusChange(orderId, newStatus), called from a control of a row
\* with one of the statuses the row offers, up to await
\* orderAPI.updateOrderStatus.  The handler keeps the orderList and riderList
\* of the render it was created in.
handleStatusChange ==
    /\ RowsShown
    /\ \E i \in 1..Len(orderList) : \E k \in 1..Len(allowedStatuses[i]) :
          Starts([Handler("status", "update", i) EXCEPT
                     !.status = allowedStatuses[i][k],
                     !.riders = IF dashboard = "admin" THEN riderList ELSE <<>>,
                     !.rider = IF dashboard = "admin" THEN orderRiders[i] ELSE ""])
    /\ dashError' = "null"
    /\ UNCHANGED <<dashboard, orderList, allowedStatuses, orderRiders, riderList,
                   dashLoading, pending, dialog, details, assigningRider, server>>
    /\ UNCHANGED <<cartVars, coVars, fwVars, apiVars, authVars>>
    /\ UNCHANGED uiVars

\* What the requests of updateOrderStatus settle with.
UpdateOutcomes == {"ok", "ok_nodata", "ok_nobody"} \cup Rejections

\* The server's check of a status change, which the client leaves to it: a
\* change is accepted when it follows the progression PLACED, PAID, SHIPPED,
\* IN_TRANSIT (or ON_THE_WAY), DELIVERED, with DELIVERED and
\* UNDELIVERED/NOT_DELIVERED reached from SHIPPED as well; DELIVERED,
\* UNDELIVERED and NOT_DELIVERED are terminal.
ServerAllows(current, next) ==
    CASE current = "PLACED" -> next = "PAID"
      [] current = "PAID" -> next = "SHIPPED"
      [] current = "SHIPPED" ->
            next \in {"IN_TRANSIT", "ON_THE_WAY", "DELIVERED", "UNDELIVERED",
                      "NOT_DELIVERED"}
      [] current \in {"IN_TRANSIT", "ON_THE_WAY"} -> next = "DELIVERED"
      [] OTHER -> FALSE

\* orderAPI.updateOrderStatus from its first await to its end:
\* getCurrentUser, the PUT under /api and, when that is rejected, the PUT
\* without /api.  It returns the body of the PUT that resolved; every
\* failure of getCurrentUser and the rejection of the second PUT reach the
\* outer catch.
updateOrderStatus(me, first, second) ==
    IF me # "ok"
    THEN [thrown |-> TRUE,
          message |-> handleApiError("thrown", DefaultMessage("updateOrderStatus"))]
    ELSE IF AxiosResolves(first) \/ AxiosResolves(second)
         THEN [thrown |-> FALSE, message |-> "none"]
         ELSE [thrown |-> TRUE,
               message |-> handleApiError(second, DefaultMessage("updateOrderStatus"))]

UpdateResults ==
    {updateOrderStatus(me, first, second) : me, first, second \in UpdateOutcomes}

\* fetchOrders() called by the handler h: setLoading(true), setError(null),
\* and the request; what h was called with is read no more.  On a page
\* that is rendered no more the call changes nothing.
CallsFetchOrders(h) ==
    IF h.live
    THEN /\ GoesOn(h, Handler(h.kind, "fetch", 0))
         /\ dashLoading' = TRUE
         /\ dashError' = "null"
    ELSE /\ Returns(h)
         /\ UNCHANGED <<dashLoading, dashError>>

WithStatusAll(orders, i, newStatus) ==
    [j \in 1..Len(orders) |-> newStatus]

\* RiderDashboard: prevOrders.map(order => order.id === orderId ?
\* {...order, status: newStatus} : order)
WithStatus(orders, i, newStatus) ==
    [j \in 1..Len(orders) |-> IF j = i THEN newStatus ELSE orders[j]]

\* autoAssignRider(orderId) up to its await, followed by what
\* handleStatusChange does when it returns at once: an order with a rider is
\* skipped; with no rider known the error is set and fetchOrders, called
\* next, clears it; else one rider of the list is sent to assignRider.
autoAssignRider(h) ==
    IF h.rider # "" \/ Len(h.riders) = 0
    THEN CallsFetchOrders(h)
    ELSE /\ \E randomIndex \in 1..Len(h.riders) :
               GoesOn(h, [h EXCEPT !.pc = "assign", !.sent = h.riders[randomIndex]])
         /\ UNCHANGED <<dashLoading, dashError>>

\* handleStatusChange after await orderAPI.updateOrderStatus: the call
\* threw, or returned a body, with or without success.  The server reports
\* success only for a change it accepts from the status it holds, and has
\* changed the order when the body reports success.  The state of a page
\* that is rendered no more is set in vain.
handleStatusChangeSettles ==
    /\ \E h \in Awaiting :
          /\ h.pc = "update"
          /\ \E r \in UpdateResults :
             \E success \in IF ServerAllows(server.orders[h.order], h.status)
                             THEN BOOLEAN ELSE {FALSE} :
                IF r.thrown \/ ~success
                THEN /\ dashError' =
                           IF ~h.live THEN dashError
                           ELSE IF r.thrown THEN UpdateThrownMessage(h.page, r.message)
                           ELSE UpdateFailedMessage(h.page)
                     /\ Returns(h)
                     /\ UNCHANGED <<orderList, allowedStatuses, dashLoading, server>>
                ELSE /\ server' = [server EXCEPT !.orders[h.order] = h.status]
                     /\ IF h.page = "rider"
                        THEN /\ IF h.live
                                THEN /\ orderList' = WithStatus(orderList, h.order,
                                                                h.status)
                                     /\ allowedStatuses' = RenderRows(h.page, orderList')
                                ELSE UNCHANGED <<orderList, allowedStatuses>>
                             /\ Returns(h)
                             /\ UNCHANGED <<dashError, dashLoading>>
                        ELSE /\ IF h.page = "admin" /\ h.status = "SHIPPED"
                                THEN autoAssignRider(h)
                                ELSE CallsFetchOrders(h)
                             /\ UNCHANGED <<orderList, allowedStatuses>>
    /\ UNCHANGED <<dashboard, orderRiders, riderList, pending, dialog, details,
                   assigningRider>>
    /\ UNCHANGED <<cartVars, coVars, fwVars, apiVars, authVars>>
    /\ UNCHANGED uiVars

\* What orderAPI.assignRider and orderAPI.unassignRider settle with.
AssignOutcomes == {"ok", "no_success", "thrown"}

\* The server has given the order of the handler the rider (none: "").
ServerAssigns(h, rider) ==
    server' = [server EXCEPT !.riders[h.order] = rider]

\* autoAssignRider after await orderAPI.assignRider: without success the
\* error is set; handleStatusChange then calls fetchOrders, which clears it
\* before the page is rendered.
autoAssignRiderSettles ==
    /\ \E h \in Awaiting :
          /\ h.kind = "status"
          /\ h.pc = "assign"
          /\ \E o \in AssignOutcomes :
                IF o = "ok" THEN ServerAssigns(h, h.sent) ELSE UNCHANGED server
          /\ CallsFetchOrders(h)
    /\ UNCHANGED <<dashboard, orderList, allowedStatuses, orderRiders, riderList,
                   pending, dialog, details, assigningRider>>
    /\ UNCHANGED <<cartVars, coVars, fwVars, apiVars, authVars>>
    /\ UNCHANGED uiVars

\* handleViewOrder(order), the View control of a row of an admin page: the
\* order-details modal shows the order as the list holds it now.
handleViewOrder ==
    /\ dashboard \in {"admin", "adminOrders"}
    /\ RowsShown
    /\ \E i \in 1..Len(orderList) :
          details' = [order |-> i, rider |-> orderRiders[i]]
    /\ UNCHANGED <<dashboard, orderList, allowedStatuses, orderRiders, riderList,
                   dashLoading, pending, dashError, handlers, dialog, assigningRider,
                   server>>
    /\ UNCHANGED <<cartVars, coVars, fwVars, apiVars, authVars>>
    /\ UNCHANGED uiVars

\* closeOrderModal(), from the controls of the order-details modal, which
\* is rendered whatever loading is.
closeOrderModal ==
    /\ dashboard \in {"admin", "adminOrders"}
    /\ details # NoDetails
    /\ details' = NoDetails
    /\ UNCHANGED <<dashboard, orderList, allowedStatuses, orderRiders, riderList,
                   dashLoading, pending, dashError, handlers, dialog, assigningRider,
                   server>>
    /\ UNCHANGED <<cartVars, coVars, fwVars, apiVars, authVars>>
    /\ UNCHANGED uiVars

\* showAssignRider(order): the dialog is opened for the order.  It is called
\* from the control of a row without a rider, and from the order-details
\* modal of an order that had no rider when it was opened, which closes.
showAssignRider ==
    /\ dashboard = "admin"
    /\ \/ /\ RowsShown
          /\ \E i \in 1..Len(orderList) :
                /\ orderRiders[i] = ""
                /\ dialog' = i
          /\ UNCHANGED details
       \/ /\ details # NoDetails
          /\ details.rider = ""
          /\ dialog' = details.order
          /\ details' = NoDetails
    /\ UNCHANGED <<dashboard, orderList, allowedStatuses, orderRiders, riderList,
                   dashLoading, pending, dashError, handlers, assigningRider, server>>
    /\ UNCHANGED <<cartVars, coVars, fwVars, apiVars, authVars>>
    /\ UNCHANGED uiVars

\* closeAssignRiderModal(), from the controls of the dialog.
closeAssignRiderModal ==
    /\ dashboard = "admin"
    /\ dialog # 0
    /\ dialog' = 0
    /\ UNCHANGED <<dashboard, orderList, allowedStatuses, orderRiders, riderList,
                   dashLoading, pending, dashError, handlers, details, assigningRider,
                   server>>
    /\ UNCHANGED <<cartVars, coVars, fwVars, apiVars, authVars>>
    /\ UNCHANGED uiVars

\* handleAssignRider(), the button of the dialog, with a rider of the list
\* chosen, up to await orderAPI.assignRider.  The button is disabled while
\* no rider is chosen or assigningRider is true.
handleAssignRider ==
    /\ dashboard = "admin"
    /\ dialog # 0
    /\ ~assigningRider
    /\ \E k \in 1..Len(riderList) :
          Starts([Handler("assign", "assign", dialog) EXCEPT !.sent = riderList[k]])
    /\ assigningRider' = TRUE
    /\ UNCHANGED <<dashboard, orderList, allowedStatuses, orderRiders, riderList,
                   dashLoading, pending, dashError, dialog, details, server>>
    /\ UNCHANGED <<cartVars, coVars, fwVars, apiVars, authVars>>
    /\ UNCHANGED uiVars

\* handleAssignRider after await orderAPI.assignRider.
handleAssignRiderSettles ==
    /\ \E h \in Awaiting :
          /\ h.kind = "assign"
          /\ h.pc = "assign"
          /\ \E o \in AssignOutcomes :
                IF o = "ok"
                THEN /\ ServerAssigns(h, h.sent)
                     /\ CallsFetchOrders(h)
                     /\ UNCHANGED assigningRider
                ELSE /\ dashError' =
                           IF ~h.live THEN dashError
                           ELSE IF o = "thrown" THEN RejectedMessage
                           ELSE "Failed to assign rider."
                     /\ Returns(h)
                     /\ assigningRider' = (assigningRider /\ ~h.live)
                     /\ UNCHANGED <<dashLoading, server>>
    /\ UNCHANGED <<dashboard, orderList, allowedStatuses, orderRiders, riderList,
                   pending, dialog, details>>
    /\ UNCHANGED <<cartVars, coVars, fwVars, apiVars, authVars>>
    /\ UNCHANGED uiVars

\* handleUnassignRider(orderId), up to await orderAPI.unassignRider.  It is
\* called from the control of a row with a rider, and from the order-details
\* modal of an order that had a rider when it was opened, which closes.
handleUnassignRider ==
    /\ dashboard = "admin"
    /\ \/ /\ RowsShown
          /\ \E i \in 1..Len(orderList) :
                /\ orderRiders[i] # ""
                /\ Starts(Handler("unassign", "unassign", i))
          /\ UNCHANGED details
       \/ /\ details # NoDetails
          /\ details.rider # ""
          /\ Starts(Handler("unassign", "unassign", details.order))
          /\ details' = NoDetails
    /\ dashError' = "null"
    /\ UNCHANGED <<dashboard, orderList, allowedStatuses, orderRiders, riderList,
                   dashLoading, pending, dialog, assigningRider, server>>
    /\ UNCHANGED <<cartVars, coVars, fwVars, apiVars, authVars>>
    /\ UNCHANGED uiVars

\* handleUnassignRider after await orderAPI.unassignRider.
handleUnassignRiderSettles ==
    /\ \E h \in Awaiting :
          /\ h.pc = "unassign"
          /\ \E o \in AssignOutcomes :
                IF o = "ok"
                THEN /\ ServerAssigns(h, "")
                     /\ CallsFetchOrders(h)
                ELSE /\ dashError' =
                           IF ~h.live THEN dashError
                           ELSE IF o = "thrown" THEN RejectedMessage
                           ELSE "Failed to unassign rider."
                     /\ Returns(h)
                     /\ UNCHANGED <<dashLoading, server>>
    /\ UNCHANGED <<dashboard, orderList, allowedStatuses, orderRiders, riderList,
                   pending, dialog, details, assigningRider>>
    /\ UNCHANGED <<cartVars, coVars, fwVars, apiVars, authVars>>
    /\ UNCHANGED uiVars

\* fetchOrders called by a handler settles: a success response carries the
\* orders as the server holds them (no other client changes them
\* meanwhile); the finally block ends the loading.  handleAssignRider then
\* closes its dialog and ends the assigning.
fetchOrdersSettles ==
    /\ \E h \in Awaiting :
          /\ h.pc = "fetch"
          /\ \E o \in OrdersOutcomes :
                IF o = "ok"
                THEN /\ SetOrderList
                     /\ UNCHANGED dashError
                ELSE /\ dashError' = FetchOrdersError(dashboard, o)
                     /\ UNCHANGED <<orderList, orderRiders, allowedStatuses>>
          /\ Returns(h)
          /\ IF h.kind = "assign"
             THEN /\ dialog' = 0
                  /\ assigningRider' = FALSE
             ELSE UNCHANGED <<dialog, assigningRider>>
    /\ dashLoading' = FALSE
    /\ UNCHANGED <<dashboard, riderList, pending, details, server>>
    /\ UNCHANGED <<cartVars, coVars, fwVars, apiVars, authVars>>
    /\ UNCHANGED uiVars

-----------------------------------------------------------------------------
(* The controls of the pages that start login, register and logout.  The   *)
(* outcome of an operation is an input of the step on which it settles;    *)
(* several operations may be awaiting their requests at once.              *)

\* Most operations of one kind awaiting their requests at once.
MaxInFlight == 2

SessionOps == {"login", "register", "logout"}

InFlightTotal == inFlight["login"] + inFlight["register"] + inFlight["logout"]

\* LoginPage and the register page render their form only when not
\* (isLoading || currentUser).
FormOffered == ~isLoading /\ ~Truthy(currentUser)

\* Header renders the Logout button of its menu when currentUser is set,
\* next to currentUser.name.split(' ')[0]: for a user whose name is no string
\* the render throws, and the page is left without a control.
LogoutOffered == Truthy(currentUser) /\ NameIsString(currentUser)

Started(op) ==
    /\ inFlight[op] < MaxInFlight
    /\ inFlight' = [inFlight EXCEPT ![op] = @ + 1]

Settled(op) ==
    /\ inFlight[op] > 0
    /\ inFlight' = [inFlight EXCEPT ![op] = @ - 1]

\* LoginPage handleLogin / register page handleSubmit: the form is
\* submitted, and login / register runs up to its await.
SubmitForm(op) ==
    /\ authPc = "idle"
    /\ FormOffered
    /\ Started(op)
    /\ isLoading' = TRUE
    /\ authError' = "null"
    /\ authRaised' = "none"
    /\ UNCHANGED <<authPc, currentUser, sessionUser, authToken, exchange>>
    /\ UNCHANGED <<cartVars, coVars, fwVars, apiVars, dashVars, pageVars, rejected>>

handleLogin == SubmitForm("login")

handleRegister == SubmitForm("register")

\* login / register after the await: the user of the response is adopted and
\* cached, or the error is set and thrown.
FormCompletes(op) ==
    /\ Settled(op)
    /\ \E response \in UserPayloads \cup {RiderWithoutName, Undefined} :
          \E thrown \in BOOLEAN :
             IF thrown THEN Raise("Request failed")
             ELSE IF Truthy(response) /\ TypeofObject(response)
                  THEN AdoptAndReturn(UserOf(response))
                  ELSE Raise("Invalid response format")
    /\ UNCHANGED <<authPc, authToken, exchange>>
    /\ UNCHANGED <<cartVars, coVars, fwVars, apiVars, dashVars, pageVars, rejected>>

LoginCompletes == FormCompletes("login")

RegisterCompletes == FormCompletes("register")

\* Layout handleLogout: logout() runs up to await authService.logout().
handleLogout ==
    /\ authPc = "idle"
    /\ LogoutOffered
    /\ Started("logout")
    /\ UNCHANGED authVars
    /\ UNCHANGED <<cartVars, coVars, fwVars, apiVars, dashVars, pageVars, rejected>>

\* logout after the await.
LogoutCompletes ==
    /\ Settled("logout")
    /\ \E ok \in BOOLEAN :
          IF ok
          THEN /\ currentUser' = Null
               /\ sessionUser' = Absent
               /\ authToken' = "none"
          ELSE UNCHANGED <<currentUser, sessionUser, authToken>>
    /\ UNCHANGED <<authPc, isLoading, authError, authRaised, exchange>>
    /\ UNCHANGED <<cartVars, coVars, fwVars, apiVars, dashVars, pageVars, rejected>>

-----------------------------------------------------------------------------
(* HomePage: the featured products (productAPI.getFeaturedProducts).       *)

MaxCatalog == 4
MaxRating == 2
FeaturedLimit == 3

\* The rating field of an item of a response: absent (<<>>) or a number.
RatingFields == {<<>>} \cup {<<r>> : r \in 0..MaxRating}

\* The data arrays an endpoint can respond with; an item's id is its place.
ItemLists ==
    UNION {{[i \in 1..n |-> [id |-> i, rating |-> f[i]]] : f \in [1..n -> RatingFields]} :
              n \in 0..MaxCatalog}

\* What api.get of a products endpoint does: throws, responds with a body
\* that holds no data array, or responds with one.
EndpointOutcomes ==
    {[kind |-> "thrown", items |-> <<>>], [kind |-> "invalid", items |-> <<>>]}
        \cup {[kind |-> "list", items |-> items] : items \in ItemLists}

\* response.data.data.map(item => ({id, rating: item.rating || 0, ...})).
ToProducts(items) ==
    [i \in 1..Len(items) |->
        [id |-> items[i].id,
         rating |-> IF items[i].rating = <<>> THEN 0 ELSE items[i].rating[1]]]

\* One step of allProducts.sort((a, b) => b.rating - a.rating): product p
\* goes behind the products that do not rate lower (the sort is stable).
InsertByRating(sorted, p) ==
    LET behind == {i \in 1..Len(sorted) : sorted[i].rating >= p.rating}
        k == IF behind = {} THEN 0
             ELSE CHOOSE i \in behind : \A j \in behind : j <= i
    IN  SubSeq(sorted, 1, k) \o <<p>> \o SubSeq(sorted, k + 1, Len(sorted))

RECURSIVE SortByRating(_)
SortByRating(products) ==
    IF products = <<>> THEN <<>>
    ELSE InsertByRating(SortByRating(SubSeq(products, 1, Len(products) - 1)),
                        products[Len(products)])

\* products.slice(0, 3).
Slice(products) ==
    SubSeq(products, 1, IF Len(products) < FeaturedLimit THEN Len(products)
                        ELSE FeaturedLimit)

\* HomePage mounts: fetchFeaturedProducts runs up to the first api.get of
\* getFeaturedProducts.
fetchFeaturedProducts ==
    /\ home.pc = "idle"
    /\ home' = [home EXCEPT !.pc = "featured", !.attempts = 0, !.loading = TRUE,
                            !.error = "null"]
    /\ UNCHANGED <<cartVars, coVars, fwVars, apiVars, authVars, dashVars,
                   inFlight, route, callback, reducerRun, rejected>>

\* fetchFeaturedProducts after getFeaturedProducts has returned: an empty
\* result sets the error, any other is shown.
FeaturedReturned(result, source, response) ==
    home' = [home EXCEPT
                !.pc = "done",
                !.loading = FALSE,
                !.featured = IF Len(result) = 0 THEN @ ELSE result,
                !.error = IF Len(result) = 0 THEN "No featured products found."
                          ELSE "null",
                !.source = source,
                !.response = response]

\* getFeaturedProducts: /api/products?featured=true, then
\* /products?featured=true, responds.
FeaturedEndpointResponds ==
    /\ home.pc = "featured"
    /\ \E outcome \in EndpointOutcomes :
          IF outcome.kind = "list"
          THEN FeaturedReturned(Slice(ToProducts(outcome.items)), "featured",
                                outcome.items)
          ELSE IF outcome.kind = "thrown" /\ home.attempts = 0
          THEN home' = [home EXCEPT !.attempts = 1]
          ELSE home' = [home EXCEPT !.pc = "catalog", !.attempts = 0]
    /\ UNCHANGED <<cartVars, coVars, fwVars, apiVars, authVars, dashVars,
                   inFlight, route, callback, reducerRun, rejected>>

\* The fallback of getFeaturedProducts: getProducts (/api/products, then
\* /products) responds; the three best rated products are returned, or []
\* when getProducts throws.
CatalogEndpointResponds ==
    /\ home.pc = "catalog"
    /\ \E outcome \in EndpointOutcomes :
          IF outcome.kind = "list"
          THEN FeaturedReturned(Slice(SortByRating(ToProducts(outcome.items))),
                                "catalog", outcome.items)
          ELSE IF outcome.kind = "thrown" /\ home.attempts = 0
          THEN home' = [home EXCEPT !.attempts = 1]
          ELSE FeaturedReturned(<<>>, "failed", <<>>)
    /\ UNCHANGED <<cartVars, coVars, fwVars, apiVars, authVars, dashVars,
                   inFlight, route, callback, reducerRun, rejected>>

-----------------------------------------------------------------------------
(* ProtectedRoute of Layout and the redirect effect of LoginPage.          *)

\* enum UserRole
UserRoles == {"CUSTOMER", "ADMIN", "RIDER"}

\* currentUser.role === role
HasRole(user, role) ==
    /\ HasKey(user, "role")
    /\ GetKey(user, "role") = JStr(role)

\* ProtectedRoute without the test of allowedRoles.
ProtectedRouteAnyRole(loading, user, restricted, allowedRoles) ==
    IF loading THEN "spinner"
    ELSE IF ~Truthy(user) THEN "/login"
    ELSE "children"

\* What ProtectedRoute renders: the spinner, a Navigate to a path, or its
\* children.  restricted: the allowedRoles prop is given.
ProtectedRoute(loading, user, restricted, allowedRoles) ==
    IF loading THEN "spinner"
    ELSE IF ~Truthy(user) THEN "/login"
    ELSE IF restricted /\ ~(\E role \in allowedRoles : HasRole(user, role))
    THEN (IF HasRole(user, "ADMIN") THEN "/admin"
          ELSE IF HasRole(user, "RIDER") THEN "/rider"
          ELSE "/account")
    ELSE "children"

\* Paths of screens wrapped in ProtectedRoute: window.location.pathname
\* when one of them is rendered.
ScreenPaths == {"/checkout", "/account", "/admin/dashboard"}

\* A screen wrapped in ProtectedRoute is rendered.  The Navigate to /login
\* passes the path of the screen as state.from ("": no state).
ProtectedRouteRenders ==
    /\ \E restricted \in BOOLEAN :
          \E allowedRoles \in (IF restricted THEN SUBSET UserRoles ELSE {{}}) :
             \E pathname \in ScreenPaths :
                LET shown == ProtectedRoute(isLoading, currentUser, restricted,
                                            allowedRoles)
                IN  route' = [restricted |-> restricted, allowed |-> allowedRoles,
                              shown |-> shown,
                              from |-> IF shown = "/login" THEN pathname ELSE ""]
    /\ UNCHANGED <<cartVars, coVars, fwVars, apiVars, authVars, dashVars,
                   inFlight, callback, home, reducerRun, rejected>>

\* The redirect effect of LoginPage: a signed-in user is sent to the page of
\* the role, a customer to state?.from || '/'.  location.state is what the
\* Navigate of ProtectedRoute passed, or nothing when the page was opened
\* by its own path.
LoginPageRedirects ==
    /\ Truthy(currentUser)
    /\ ~isLoading
    /\ \E from \in {"", route.from} :
          route' = [restricted |-> FALSE, allowed |-> {}, from |-> "",
                    shown |-> IF HasRole(currentUser, "ADMIN") THEN "/admin/dashboard"
                              ELSE IF HasRole(currentUser, "RIDER")
                              THEN "/rider/dashboard"
                              ELSE IF from = "" THEN "/" ELSE from]
    /\ UNCHANGED <<cartVars, coVars, fwVars, apiVars, authVars, dashVars,
                   inFlight, callback, home, reducerRun, rejected>>

-----------------------------------------------------------------------------
(* cartReducer called more than once with one state object and one action. *)

MaxInvocations == 2

\* The carts a state object may hold when the reducer is called: at most two
\* lines for different triples.
ReducerStates ==
    {[items |-> <<>>]}
        \cup {[items |-> <<NewLine(t[1], t[2], t[3], q)>>] : t \in Triples, q \in 1..MaxQty}
        \cup {[items |-> <<NewLine(tu[1][1], tu[1][2], tu[1][3], qr[1]),
                            NewLine(tu[2][1], tu[2][2], tu[2][3], qr[2])>>] :
                 tu \in {p \in Triples \X Triples : p[1] # p[2]},
                 qr \in (1..MaxQty) \X (1..MaxQty)}

\* The state object passed to case 'ADD_TO_CART' as it is after the call:
\* updatedItems is a new array of the same line objects, and the quantity
\* of the existing line is raised in the line object itself.
ReduceAddArgument(state, payload) ==
    LET items == state.items
        Match(item) == SameLine(item, payload.product.id,
                                payload.selectedColor, payload.selectedSize)
        existingItemIndex == FindIndex([k \in 1..Len(items) |-> Match(items[k])])
    IN  IF existingItemIndex >= 1
        THEN [state EXCEPT !.items =
                [items EXCEPT ![existingItemIndex].quantity = @ + payload.quantity]]
        ELSE state

\* A state object and an ADD_TO_CART action are taken.
ReducerInput ==
    /\ ~reducerRun.started
    /\ \E state \in ReducerStates : \E t \in Triples : \E q \in 1..MaxQty :
          reducerRun' = [started |-> TRUE, first |-> state, state |-> state,
                         payload |-> NewLine(t[1], t[2], t[3], q), results |-> <<>>]
    /\ UNCHANGED <<cartVars, coVars, fwVars, apiVars, authVars, dashVars,
                   inFlight, route, callback, home, rejected>>

\* cartReducer(state, action) is called with them (again).
InvokeReducer ==
    /\ reducerRun.started
    /\ Len(reducerRun.results) < MaxInvocations
    /\ reducerRun' =
          [reducerRun EXCEPT
              !.results = Append(@, ReduceAdd(reducerRun.state, reducerRun.payload)),
              !.state = ReduceAddArgument(reducerRun.state, reducerRun.payload)]
    /\ UNCHANGED <<cartVars, coVars, fwVars, apiVars, authVars, dashVars,
                   inFlight, route, callback, home, rejected>>

-----------------------------------------------------------------------------
(* The AuthCallback page, opened with a token in the URL (the version of   *)
(* the page that processes the token).                                     *)

\* The browser opens /auth/callback?token=...: the provider and the page
\* are rendered for the first time.
AuthCallbackMount ==
    /\ authPc = "unmounted"
    /\ ~callback.mounted
    /\ callback.calls = 0
    /\ callback' = [mounted |-> TRUE, processing |-> FALSE, error |-> "null",
                    calls |-> 0]
    /\ UNCHANGED <<cartVars, coVars, fwVars, apiVars, authVars, dashVars,
                   inFlight, route, home, reducerRun, rejected>>

\* The guard of the first effect: location.search && !currentUser &&
\* !isLoading && !processing.
ProcessGuard == ~Truthy(currentUser) /\ ~isLoading /\ ~callback.processing

\* The second effect navigates: to the page of the user's role, or to /login
\* when an error is set.
RedirectGuard ==
    /\ ~isLoading
    /\ ~callback.processing
    /\ Truthy(currentUser) \/ callback.error # "null"

RedirectTarget ==
    IF Truthy(currentUser)
    THEN (IF HasRole(currentUser, "ADMIN") THEN "/admin/dashboard"
          ELSE IF HasRole(currentUser, "RIDER") THEN "/rider/dashboard"
          ELSE "/")
    ELSE "/login"

\* The effects of a render of the page, in the order of the component: the
\* first calls processCallback when its guard holds (setProcessing(true),
\* then handleAuthToken(token) up to its await), the second navigates; both
\* read the state of that render.  The navigation takes the page away.
AuthCallbackEffects ==
    /\ callback.mounted
    /\ ProcessGuard \/ RedirectGuard
    /\ IF ProcessGuard
       THEN \E token \in Tokens : handleAuthTokenCalled(token)
       ELSE UNCHANGED <<authVars, apiVars, fwVars, cartVars, coVars, dashVars>>
    /\ callback' = [callback EXCEPT
                       !.processing = IF ProcessGuard THEN TRUE ELSE @,
                       !.calls = IF ProcessGuard THEN @ + 1 ELSE @,
                       !.mounted = ~RedirectGuard]
    /\ route' = IF RedirectGuard
                THEN [restricted |-> FALSE, allowed |-> {}, shown |-> RedirectTarget]
                ELSE route
    /\ UNCHANGED <<inFlight, home, reducerRun, rejected>>

\* processCallback after await handleAuthToken(token): handleAuthToken
\* returns or throws, the catch sets the page's error, setProcessing(false).
\* A handleAuthToken that could not store the token has thrown already, and
\* only processCallback goes on.
processCallbackSettles ==
    /\ callback.calls > 0
    /\ IF authPc = "handleAuthToken"
       THEN handleAuthTokenReturns
       ELSE /\ authPc = "idle"
            /\ callback.processing
            /\ UNCHANGED <<authVars, apiVars, fwVars, cartVars, coVars, dashVars,
                           rejected>>
    /\ callback' = [callback EXCEPT
                       !.processing = FALSE,
                       !.error = IF authPc = "idle" THEN SetItemMessage
                                 ELSE IF authRaised' # "none" THEN authRaised'
                                 ELSE @]
    /\ UNCHANGED <<inFlight, route, home, reducerRun>>

-----------------------------------------------------------------------------
(* Specifications.                                                         *)

\* The cart store with every operation of its context.
Next ==
    \/ Mount
    \/ SaveEffect
    \/ AddStep(Triples)
    \/ RemoveStep(Triples)
    \/ UpdateStep(Triples)
    \/ clearCart
    \/ Reload

Spec == Init /\ [][Next]_vars

\* The save effect is a scheduled callback: it runs unless the page goes away.
FairSpec == Spec /\ WF_vars(SaveEffect)

\* The checkout page on top of the cart store: the browser holds no cart or
\* the cart of two lines an earlier visit saved, and the cart is edited
\* through one triple; the cart is cleared by handleSubmit only, as in the
\* pages.
CheckoutTriples == { <<"P1", "red", "M">> }

SavedCart ==
    [items |-> <<NewLine("P1", "red", "M", 1), NewLine("P1", "red", "L", 1)>>]

InitCheckout ==
    /\ phase = "unmounted"
    /\ cartState = initialState
    /\ storage \in {Absent, Stored(Serialize(SavedCart))}
    /\ effectPending = FALSE
    /\ loadError = FALSE
    /\ Idle
    /\ FwIdle
    /\ ServiceIdle

NextCheckout ==
    \/ Mount
    \/ SaveEffect
    \/ AddStep(CheckoutTriples)
    \/ RemoveStep(CheckoutTriples)
    \/ UpdateStep(CheckoutTriples)
    \/ Reload
    \/ CheckoutPageMount
    \/ handleSubmit
    \/ CoPrimaryResponds
    \/ CoFallbackResponds
    \/ CoLeftResponds

SpecCheckout == InitCheckout /\ [][NextCheckout]_vars

\* The two request helpers side by side, the cart holding one line.
InitApi ==
    /\ phase = "mounted"
    /\ cartState = SampleCart
    /\ storage = Stored(Serialize(SampleCart))
    /\ effectPending = FALSE
    /\ loadError = FALSE
    /\ Idle
    /\ FwIdle
    /\ ServiceIdle

NextApi ==
    \/ SaveEffect
    \/ CheckoutPageMount
    \/ handleSubmit
    \/ CoPrimaryResponds
    \/ CoFallbackResponds
    \/ CoLeftResponds
    \/ fetchWithFallback
    \/ FwPrimaryResponds
    \/ FwFallbackResponds
    \/ FwThirdResponds

SpecApi == InitApi /\ [][NextApi]_vars

\* The operations of services/api called one after another.
InitService ==
    /\ Init
    /\ storage = Absent

NextService ==
    \/ ApiCall
    \/ ApiMeResponds
    \/ ApiAxiosResponds
    \/ FwPrimaryResponds
    \/ FwFallbackResponds
    \/ FwThirdResponds
    \/ ApiFetchSettles

SpecService == InitService /\ [][NextService]_vars

\* The session manager: AuthProvider over the operations of authService.
InitAuth ==
    /\ phase = "unmounted"
    /\ cartState = initialState
    /\ storage = Absent
    /\ effectPending = FALSE
    /\ loadError = FALSE
    /\ Idle
    /\ FwIdle
    /\ ApiIdle
    /\ AuthUnmounted
    /\ sessionUser \in InitialSnapshots
    /\ authToken \in {"none", "token1"}
    /\ DashIdle
    /\ UiIdle

NextAuth ==
    \/ checkAuth
    \/ checkAuthSettles
    \/ login
    \/ loginSettles
    \/ logout
    \/ logoutSettles
    \/ loginWithGoogle
    \/ handleAuthToken
    \/ ExchangeSettles
    \/ handleAuthTokenSettles
    \/ handleGoogleCallback
    \/ handleGoogleCallbackSettles
    \/ ApiAxiosResponds
    \/ AuthReload

SpecAuth == InitAuth /\ [][NextAuth]_vars

\* The dashboards.
InitDash == Init /\ storage = Absent

\* A user record without an id field.
RiderWithoutId ==
    JObj(<<JMember("_id", JStr("u3")), JMember("name", JStr("u3")),
           JMember("role", JStr("RIDER"))>>)

\* The users a dashboard is opened with.
DashUsers == {Null, Rider, Admin, RiderWithoutId, RiderWithoutName}

\* The orders a server holds, none of them with a rider.
ServerStates ==
    {[orders |-> orders, riders |-> [i \in 1..Len(orders) |-> ""]] :
        orders \in ResponseOrders}

\* AuthProvider has settled on a user, no dashboard is shown yet.
DashboardsOver(servers) ==
    /\ phase = "unmounted"
    /\ cartState = initialState
    /\ storage = Absent
    /\ effectPending = FALSE
    /\ loadError = FALSE
    /\ Idle
    /\ FwIdle
    /\ ApiIdle
    /\ authPc = "idle"
    /\ currentUser \in DashUsers
    /\ isLoading = FALSE
    /\ authError = "null"
    /\ authRaised = "none"
    /\ exchange = [ok |-> FALSE, val |-> JLit("undefined"), message |-> "none"]
    /\ sessionUser = Absent
    /\ authToken = "none"
    /\ PageIdle
    /\ handlers = EmptyBag
    /\ server \in servers
    /\ UiIdle

InitDashboards == DashboardsOver(ServerStates)

NextDash ==
    \/ DashboardMount
    \/ fetchOrdersSucceeds
    \/ fetchOrdersFails
    \/ DashboardLeave

SpecDash == InitDashboards /\ [][NextDash]_vars

\* The dashboards with their handlers.
NextOrders ==
    \/ DashboardMount
    \/ fetchOrdersSucceeds
    \/ fetchOrdersFails
    \/ handleStatusChange
    \/ handleStatusChangeSettles
    \/ fetchOrdersSettles
    \/ DashboardLeave

SpecOrders == InitDashboards /\ [][NextOrders]_vars

\* The admin dashboard with its rider assignment, over one order.
NextAssign ==
    \/ DashboardMount
    \/ fetchOrdersSucceeds
    \/ fetchOrdersFails
    \/ handleStatusChange
    \/ handleStatusChangeSettles
    \/ fetchOrdersSettles
    \/ fetchRidersSucceeds
    \/ fetchRidersFails
    \/ autoAssignRiderSettles
    \/ handleViewOrder
    \/ closeOrderModal
    \/ showAssignRider
    \/ closeAssignRiderModal
    \/ handleAssignRider
    \/ handleAssignRiderSettles
    \/ handleUnassignRider
    \/ handleUnassignRiderSettles

InitAssign ==
    /\ DashboardsOver({[orders |-> <<status>>, riders |-> <<"">>] :
                          status \in {"PAID", "SHIPPED"}})
    /\ currentUser = Admin

SpecAssign == InitAssign /\ [][NextAssign]_vars

\* The session controls of the pages over AuthProvider's start-up.
NextSession ==
    \/ checkAuth
    \/ checkAuthSettles
    \/ ApiAxiosResponds
    \/ handleLogin
    \/ handleRegister
    \/ handleLogout
    \/ LoginCompletes
    \/ RegisterCompletes
    \/ LogoutCompletes

SpecSession == InitAuth /\ [][NextSession]_vars

\* The session controls with the protected screens.
NextRoute ==
    \/ NextSession
    \/ ProtectedRouteRenders
    \/ LoginPageRedirects

SpecRoute == InitAuth /\ [][NextRoute]_vars

\* The reducer called with a state object and an action.
NextReducer ==
    \/ ReducerInput
    \/ InvokeReducer

SpecReducer == InitDash /\ [][NextReducer]_vars

\* A visit to the callback page.
NextCallback ==
    \/ AuthCallbackMount
    \/ checkAuth
    \/ checkAuthSettles
    \/ ApiAxiosResponds
    \/ AuthCallbackEffects
    \/ ExchangeSettles
    \/ processCallbackSettles

SpecCallback == InitAuth /\ [][NextCallback]_vars

\* The operations of the provider that set isLoading, started from the
\* pages that call them.  Every request that was issued completes, and the
\* effects of a render are run.
NextLoading ==
    \/ checkAuth
    \/ checkAuthSettles
    \/ ApiAxiosResponds
    \/ handleLogin
    \/ LoginCompletes
    \/ handleRegister
    \/ RegisterCompletes
    \/ AuthCallbackMount
    \/ AuthCallbackEffects
    \/ ExchangeSettles
    \/ processCallbackSettles

SpecLoading ==
    /\ InitAuth
    /\ [][NextLoading]_vars
    /\ WF_vars(checkAuth)
    /\ WF_vars(checkAuthSettles)
    /\ WF_vars(ApiAxiosResponds)
    /\ WF_vars(LoginCompletes)
    /\ WF_vars(RegisterCompletes)
    /\ WF_vars(AuthCallbackEffects)
    /\ WF_vars(ExchangeSettles)
    /\ WF_vars(processCallbackSettles)

\* HomePage fetching its featured products.
NextHome ==
    \/ fetchFeaturedProducts
    \/ FeaturedEndpointResponds
    \/ CatalogEndpointResponds

SpecHome == InitDash /\ [][NextHome]_vars

-----------------------------------------------------------------------------
(* Properties of the cart store.                                           *)

Mounted == phase = "mounted"

\* The number of lines of a cart for a triple.
LinesFor(state, t) ==
    Cardinality({i \in 1..Len(state.items) :
                    SameLine(state.items[i], t[1], t[2], t[3])})

\* The cart the 'cart' entry holds; while the save effect is pending this is
\* the cart before the last render.
StoredCart == LoadCart(storage).cart

\* C1: every addToCart call for a triple leaves exactly one line for it,
\* whose quantity is the quantity before the call (0 when the cart had no
\* such line) plus the quantity passed; so a run of calls from a cart
\* without the triple ends with one line holding the sum.
C1_AddAccumulates ==
    [][\A t \in Triples, q \in 1..MaxQty :
          addToCart(t[1], t[2], t[3], q) =>
              /\ LinesFor(cartState', t) = 1
              /\ QuantityOf(cartState', t[1], t[2], t[3])
                    = QuantityOf(cartState, t[1], t[2], t[3]) + q]_vars

\* A second addToCart for (P1, red, M) has just brought its line from 2 to 3,
\* next to another line.
C1_Witness ==
    /\ Mounted /\ effectPending
    /\ QuantityOf(StoredCart, "P1", "red", "M") = 2
    /\ QuantityOf(cartState, "P1", "red", "M") = 3
    /\ Len(cartState.items) = 2
    /\ Len(StoredCart.items) = 2

\* C2: no two lines of the cart share (productId, color, size), whether the
\* cart was restored from local storage or reached by the operations.
C2_UniqueLines ==
    Mounted => \A t \in Triples : LinesFor(cartState, t) <= 1

\* A cart restored from local storage holds every triple, one of them with
\* a quantity above 1.
C2_Witness ==
    /\ Mounted /\ effectPending
    /\ storage = Stored(Serialize(cartState))
    /\ \A t \in Triples : LinesFor(cartState, t) = 1
    /\ QuantityOf(cartState, "P1", "red", "M") = 2

\* C3: every line of the cart has quantity >= 1.
C3_PositiveQuantities ==
    Mounted => \A i \in 1..Len(cartState.items) : cartState.items[i].quantity >= 1

\* A line present before the last render is gone while the other one kept its
\* quantity: a removal, or an update to a quantity <= 0, has acted.
C3_Witness ==
    /\ Mounted /\ effectPending
    /\ Len(StoredCart.items) = 2
    /\ QuantityOf(StoredCart, "P1", "red", "M") = 2
    /\ Len(cartState.items) = 1
    /\ QuantityOf(cartState, "P1", "red", "M") = 0
    /\ QuantityOf(cartState, "P2", "red", "M") = 3

UpdateAction(t, q) ==
    [type |-> "UPDATE_QUANTITY",
     payload |-> [productId |-> t[1], color |-> t[2], size |-> t[3], quantity |-> q]]

RemoveAction(t) ==
    [type |-> "REMOVE_FROM_CART",
     payload |-> [productId |-> t[1], color |-> t[2], size |-> t[3]]]

\* C4: in every cart, for every triple, updateQuantity with a quantity <= 0
\* gives the state removeFromCart gives: no line for the triple, and so the
\* same totalItems and totalAmount.
C4_NonPositiveUpdateIsRemove ==
    Mounted =>
        \A t \in Triples, q \in {-1, 0} :
            LET u == cartReducer(cartState, UpdateAction(t, q))
                r == cartReducer(cartState, RemoveAction(t))
            IN  /\ u = r
                /\ LinesFor(u, t) = 0
                /\ totalItems(u) = totalItems(r)
                /\ totalAmount(u) = totalAmount(r)
                /\ totalItems(u) = totalItems(cartState)
                                   - QuantityOf(cartState, t[1], t[2], t[3])

\* The cart before the last render had three lines, the middle one for
\* (P1, blue, M); that line is gone and the two others are as they were.
C4_Witness ==
    /\ Mounted /\ effectPending
    /\ Len(StoredCart.items) = 3
    /\ SameLine(StoredCart.items[2], "P1", "blue", "M")
    /\ cartState.items = <<StoredCart.items[1], StoredCart.items[3]>>

\* The items without the element at index i.
WithoutIndex(items, i) == SubSeq(items, 1, i - 1) \o SubSeq(items, i + 1, Len(items))

\* C5: removeFromCart of a triple with a line leaves the other lines, in
\* their order and with their quantities, and no line for the triple; of a
\* triple without a line it leaves the lines as they are.
C5_RemoveFrame ==
    [][\A t \in Triples :
          removeFromCart(t[1], t[2], t[3]) =>
              IF LinesFor(cartState, t) = 0
              THEN cartState'.items = cartState.items
              ELSE \E i \in 1..Len(cartState.items) :
                      /\ SameLine(cartState.items[i], t[1], t[2], t[3])
                      /\ cartState'.items = WithoutIndex(cartState.items, i)]_vars

\* The first of three lines was removed: the two others follow in order.
C5_Witness ==
    /\ Mounted /\ effectPending
    /\ Len(StoredCart.items) = 3
    /\ StoredCart.items[1].product.id = "P1"
    /\ StoredCart.items[2].product.id = "P1"
    /\ cartState.items = <<StoredCart.items[2], StoredCart.items[3]>>

\* The price the catalog gives each triple: the variant's price where the
\* product has a variant of that color and size, else its base price.
PriceTable(t) ==
    CASE t = <<"P1", "red", "M">> -> 7
      [] t = <<"P1", "red", "L">> -> 8
      [] t = <<"P1", "blue", "M">> -> 5
      [] t = <<"P2", "red", "M">> -> 3

\* The sum of f[x] over the x in S.
RECURSIVE SumOver(_, _)
SumOver(S, f) ==
    IF S = {} THEN 0
    ELSE LET x == CHOOSE y \in S : TRUE IN f[x] + SumOver(S \ {x}, f)

LineTriple(item) == <<item.product.id, item.selectedColor, item.selectedSize>>

\* C6: totalItems is the sum of the quantities of the lines, totalAmount the
\* sum of price times quantity, the price being the matching variant's or
\* else the base price.
C6_Totals ==
    Mounted =>
        LET I == 1..Len(cartState.items)
            qty == [i \in I |-> cartState.items[i].quantity]
            amount == [i \in I |-> PriceTable(LineTriple(cartState.items[i])) * qty[i]]
        IN  /\ totalItems(cartState) = SumOver(I, qty)
            /\ totalAmount(cartState) = SumOver(I, amount)

\* P1 (red, M) with quantity 2 alone gives 2 items and 14; the case here has
\* a variant-priced and a base-priced line: 2 * 7 + 3 * 5.
C6_Witness ==
    /\ Mounted
    /\ Len(cartState.items) = 2
    /\ QuantityOf(cartState, "P1", "red", "M") = 2
    /\ QuantityOf(cartState, "P1", "blue", "M") = 3
    /\ totalItems(cartState) = 5
    /\ totalAmount(cartState) = 29

\* What the start-up code does with an entry that is no saved cart.
MountsFrom(S) ==
    (phase = "unmounted" /\ phase' = "mounted" /\ storage \in S) =>
        /\ cartState' = initialState
        /\ storage' = Absent
        /\ loadError' = FALSE

\* Saving the cart and loading the entry gives the cart back and keeps the
\* entry.
RoundTrip ==
    Mounted =>
        LET saved == Stored(Serialize(cartState))
        IN  /\ LoadCart(saved).cart = cartState
            /\ LoadCart(saved).storage = saved
            /\ LoadCart(saved).threw = FALSE

\* C7: saving the cart and loading the entry at start-up gives the cart
\* back; and every stored string that is not valid JSON (the empty string is
\* one: JSON.parse rejects it) or has no items array is removed on loading,
\* which yields the empty cart and raises nothing.
C7_RoundTripAndInvalidEntryRemoved ==
    /\ [](RoundTrip /\ loadError = FALSE)
    /\ [][MountsFrom({Stored(<<>>)} \cup NotJson \cup WrongShape)]_vars

\* C8: whenever no save effect is pending the 'cart' entry is the
\* serialization of the cart in memory, so a reload then restores that cart;
\* the entry changes only by a write of the current cart made after the
\* change in memory (or by start-up removing an invalid entry); and a pending
\* save effect runs unless the page goes away first.
C8_PersistedFollowsMemory ==
    /\ []((Mounted /\ ~effectPending) =>
            /\ storage = Stored(Serialize(cartState))
            /\ LoadCart(storage).cart = cartState)
    /\ [][storage' # storage =>
            \/ /\ Mounted /\ effectPending
               /\ cartState' = cartState
               /\ storage' = Stored(Serialize(cartState))
            \/ /\ phase = "unmounted" /\ phase' = "mounted"
               /\ storage' = Absent]_vars
    /\ ((Mounted /\ effectPending) ~>
            ((Mounted /\ ~effectPending /\ storage = Stored(Serialize(cartState)))
             \/ phase = "unmounted"))

\* The save effect has run after an operation that left three lines.
C8_Witness ==
    /\ Mounted /\ ~effectPending
    /\ Len(cartState.items) = 3
    /\ QuantityOf(cartState, "P2", "red", "M") = 2
    /\ storage = Stored(Serialize(cartState))

-----------------------------------------------------------------------------
(* Properties of checkout and of the request helpers.                      *)

Rejected(o) == o \in {"rejected_error", "rejected_message", "rejected", "network"}

\* A step in which handleSubmit comes to its end.
SubmitEnds ==
    /\ coPc \in {"primary", "fallback"}
    /\ coPc' \in {"idle", "done"}
    /\ coLeft' = coLeft
    /\ phase' = "mounted"

\* A step in which the handleSubmit of a page left since comes to its end.
LeftSubmitEnds ==
    /\ BagCardinality(coLeft') < BagCardinality(coLeft)
    /\ phase' = "mounted"

\* createOrder returned to handleSubmit (a value, which may be undefined).
CoReturned == coResult \in {"order", "undefined"}

\* C9: handleSubmit changes the cart only on a step in which createOrder
\* returned, and then empties it; when createOrder threw, which it does when
\* both requests were rejected (and when a 2xx response had a null body), it
\* leaves the cart as it is, sets an error message and resets isProcessing.
\* The handleSubmit of a page that was left while it awaited createOrder
\* treats the cart the same way; the page it would show the error on is
\* gone, and the page rendered since keeps its own error and isProcessing.
C9_ClearOnlyAfterOrderCreated ==
    [][/\ (coAttempts' # coAttempts /\ phase' = "mounted" /\ cartState' # cartState) =>
            /\ SubmitEnds
            /\ CoReturned'
            /\ HasBody(Last(coAttempts').outcome)
       /\ (SubmitEnds /\ CoReturned') => cartState'.items = <<>>
       /\ SubmitEnds => (CoReturned' \/ coResult' = "thrown")
       /\ (SubmitEnds /\ coResult' = "thrown") =>
            /\ ~HasBody(Last(coAttempts').outcome)
            /\ cartState' = cartState
            /\ coError' # "null"
            /\ isProcessing' = FALSE
       /\ (SubmitEnds /\ \A i \in 1..Len(coAttempts') : Rejected(coAttempts'[i].outcome)) =>
            /\ Len(coAttempts') = 2
            /\ coResult' = "thrown"
       /\ (coLeft' # coLeft /\ phase' = "mounted" /\ cartState' # cartState) =>
            /\ LeftSubmitEnds
            /\ cartState'.items = <<>>
       /\ \A p \in BagToSet(coLeft) : \A o \in AxiosOutcomes :
            CoLeftSettles(p, o) =>
               /\ cartState' # cartState => HasBody(o)
               /\ (LeftSubmitEnds /\ ~HasBody(o)) =>
                     /\ (p = "/orders" /\ Rejected(o)) \/ o = "ok_nobody"
                     /\ cartState' = cartState
               /\ (p = "/orders" /\ Rejected(o)) =>
                     (LeftSubmitEnds /\ cartState' = cartState)
               /\ coError' = coError
               /\ isProcessing' = isProcessing]_vars

\* Both order requests were rejected: the two lines are still in the cart,
\* the error is shown and the button is enabled again.
C9_Witness ==
    /\ Mounted
    /\ coPc = "idle"
    /\ coResult = "thrown"
    /\ Len(coAttempts) = 2
    /\ Rejected(coAttempts[1].outcome)
    /\ coAttempts[2].outcome = "rejected_message"
    /\ coError = "server message"
    /\ isProcessing = FALSE
    /\ Len(cartState.items) = 2

\* A fetch attempt that ended in a response with a readable body.
FwSucceeded(a) == a.kind = "ok"
FwFailed(a) == a.kind \in {"network", "not_ok", "ok_badjson"}

\* C10: the requests go to the primary path first, then to the fallback
\* path(s) in order, each only after the one before failed; the call stops at
\* the first response that succeeds and returns its body; with a failing
\* primary and a succeeding fallback it returns the fallback's body after
\* exactly two requests.  The same order holds for createOrder, which
\* returns what the first response with a 2xx status carries.
C10_FallbackOrder ==
    /\ fwPc # "idle" =>
          /\ Len(fwAttempts) \in 1..3
          /\ fwAttempts[1].path = fwArgs.primary
          /\ Len(fwAttempts) >= 2 => fwAttempts[2].path = fwArgs.fallback
          /\ \A i \in 1..(Len(fwAttempts) - 1) : FwFailed(fwAttempts[i])
          /\ \A i, j \in 1..Len(fwAttempts) :
                i # j => fwAttempts[i].path # fwAttempts[j].path
          /\ fwPc = "returned" <=> FwSucceeded(Last(fwAttempts))
          /\ fwPc = "returned" =>
                (fwResult = Last(fwAttempts).body /\ fwResult # "none")
          /\ (Len(fwAttempts) >= 2 /\ FwSucceeded(fwAttempts[2])) =>
                /\ Len(fwAttempts) = 2
                /\ fwPc = "returned"
                /\ fwResult = fwAttempts[2].body
    /\ coAttempts # <<>> =>
          /\ Len(coAttempts) \in 1..2
          /\ coAttempts[1].path = "/api/orders"
          /\ Len(coAttempts) = 2 =>
                (coAttempts[2].path = "/orders" /\ Rejected(coAttempts[1].outcome))
          /\ AxiosResolves(Last(coAttempts).outcome) => coPc \in {"idle", "done"}
          /\ coPc = "done" => Last(coAttempts).outcome = "ok"
          /\ CoReturned =>
                (HasBody(Last(coAttempts).outcome)
                    /\ coResult = BodyData(Last(coAttempts).outcome))
          /\ AxiosResolves(Last(coAttempts).outcome) => CoReturned

\* The primary path gave no readable response, the fallback answered with
\* body2: that body is the result and there was no third request.
C10_Witness ==
    /\ fwPc = "returned"
    /\ fwArgs.version = 1
    /\ Len(fwAttempts) = 2
    /\ fwAttempts[1].kind = "not_ok"
    /\ fwAttempts[2].path = "/register"
    /\ fwResult = "body2"

-----------------------------------------------------------------------------
(* Properties of the services/api operations.                              *)

\* The paths one operation has requested so far, through axios and, for
\* register, through fetchWithFallback.
RequestedPaths ==
    [i \in 1..Len(apiAttempts) |-> apiAttempts[i].path]
    \o [i \in 1..Len(fwAttempts) |-> fwAttempts[i].path]

\* C11: within one operation no endpoint path is requested more than once,
\* also when every attempt fails.
C11_NoPathRequestedTwice ==
    \A i, j \in 1..Len(RequestedPaths) :
        i # j => RequestedPaths[i] # RequestedPaths[j]

\* The message the priority order gives for the outcome of a request: the
\* server's message field, else one derived from the status, else the
\* network-failure message.
PriorityMessage(op, o) ==
    CASE o = "rejected_message" -> "server message"
      [] o \in {"rejected_error", "rejected"} -> "Error status: " \o DefaultMessage(op)
      [] o = "network" -> "No response from server"

\* C12: when all attempts of an operation have failed, the error the caller
\* receives carries the server's message if the failing response had one,
\* else a message derived from the status if there was a response, else the
\* network-failure message.
C12_NormalizedErrorPriority ==
    (/\ apiPc = "thrown"
     /\ fwAttempts = <<>>
     /\ ApiNext(apiOp, apiAttempts) = "none"
     /\ apiOp = "updateOrderStatus" => Len(apiAttempts) = 3
     /\ Rejected(Last(apiAttempts).outcome))
        => apiError = PriorityMessage(apiOp, Last(apiAttempts).outcome)

-----------------------------------------------------------------------------
(* Properties of the session manager.                                      *)

\* The steps of checkAuth: up to its first await, and after it.
CheckAuthRuns == authPc = "unmounted" /\ authPc' # "unmounted"
CheckAuthEnds == authPc = "checkAuth" /\ authPc' = "idle"

\* The entry holds the serialized user record u.
Caches(entry, u) == entry = Stored(SerializeUser(u))

\* C13: at start-up a present, well-formed snapshot of a user is adopted and
\* no request is made; with no snapshot and a stored token the current-user
\* endpoint is requested, and the user it returns is adopted and cached; with
\* no snapshot and no token, or when the request fails, the current user
\* stays none.
C13_RestoreSession ==
    [][/\ CheckAuthRuns =>
            /\ \A u \in Users : Caches(sessionUser, u) =>
                  /\ currentUser' = u
                  /\ sessionUser' = sessionUser
                  /\ apiAttempts' = <<>>
                  /\ authPc' = "idle"
                  /\ isLoading' = FALSE
            /\ (sessionUser = Absent /\ authToken # "none") =>
                  /\ apiOp' = "getCurrentUser"
                  /\ apiAttempts' = <<Request("/auth/me")>>
                  /\ authPc' = "checkAuth"
                  /\ currentUser' = Null
            /\ (sessionUser = Absent /\ authToken = "none") =>
                  /\ currentUser' = Null
                  /\ sessionUser' = Absent
                  /\ apiAttempts' = <<>>
                  /\ authPc' = "idle"
                  /\ isLoading' = FALSE
       /\ CheckAuthEnds =>
            /\ apiPc = "thrown" =>
                  /\ currentUser' = Null
                  /\ sessionUser' = sessionUser
            /\ apiPc = "returned" =>
                  \/ currentUser' = Null /\ sessionUser' = sessionUser
                  \/ currentUser' \in Users /\ Caches(sessionUser', currentUser')
            /\ \A u \in Users : (apiPc = "returned" /\ apiResult = u) =>
                  (currentUser' = u /\ Caches(sessionUser', u))
            /\ isLoading' = FALSE]_vars

\* No snapshot and a stored token: GET /auth/me answered, and the user it
\* returned is the current user and is cached.
C13_Witness ==
    /\ authPc = "idle"
    /\ apiOp = "getCurrentUser"
    /\ apiPc = "returned"
    /\ apiAttempts = <<[path |-> "/auth/me", outcome |-> "ok"]>>
    /\ authToken = "token1"
    /\ currentUser = Customer
    /\ Caches(sessionUser, Customer)

\* C14: a snapshot that is not JSON, or is JSON of another shape than a user
\* record, is never adopted: checkAuth removes the entry, reports no error,
\* and goes on to the token check as if there were no snapshot.
C14_CorruptSnapshotDiscarded ==
    [][(/\ CheckAuthRuns
        /\ sessionUser \in {Stored(<<>>)} \cup InvalidSnapshots \cup WrongShapeSnapshots) =>
            /\ currentUser' = Null
            /\ sessionUser' = Absent
            /\ authError' = "null"
            /\ authRaised' = "none"
            /\ IF authToken = "none"
               THEN authPc' = "idle" /\ apiAttempts' = <<>>
               ELSE authPc' = "checkAuth" /\ apiAttempts' = <<Request("/auth/me")>>]_vars

\* The step on which login settles, and a page load.
LoginEnds == authPc = "login" /\ authPc' = "idle"
Reloads == authPc # "unmounted" /\ authPc' = "unmounted"

\* C15: when login ends after authService.login returned a user U, as the
\* response itself or under its user field, the current user is U and the
\* snapshot holds U, with no error; a page load keeps the snapshot and
\* checkAuth then restores U from it without a request.  When
\* authService.login threw, the current user and the snapshot are as before,
\* and its message is set as the error and thrown again.
C15_LoginAdoptsAndSurvivesReload ==
    [][/\ (LoginEnds /\ apiPc = "returned" /\ Last(apiAttempts).outcome = "ok") =>
            /\ currentUser' \in Users
            /\ Caches(sessionUser', currentUser')
            /\ authError' = "null"
            /\ authRaised' = "none"
            /\ isLoading' = FALSE
       /\ \A u \in Users :
            (LoginEnds /\ apiPc = "returned" /\ apiResult \in {u, AuthResponse(u)}) =>
               /\ currentUser' = u
               /\ Caches(sessionUser', u)
               /\ JSONparse(sessionUser'.text) = [ok |-> TRUE, val |-> u]
               /\ authError' = "null"
               /\ authRaised' = "none"
               /\ isLoading' = FALSE
       /\ Reloads =>
            /\ sessionUser' = sessionUser
            /\ currentUser' = Null
            /\ apiAttempts' = <<>>
       /\ CheckAuthRuns =>
            \A u \in Users : Caches(sessionUser, u) =>
               /\ currentUser' = u
               /\ Caches(sessionUser', u)
               /\ apiAttempts' = <<>>
               /\ apiPc' = "idle"
       /\ (LoginEnds /\ apiPc = "thrown") =>
            /\ currentUser' = currentUser
            /\ sessionUser' = sessionUser
            /\ authError' = apiError
            /\ authRaised' = apiError
            /\ apiError \notin {"null", "none"}
            /\ isLoading' = FALSE]_vars

\* A rider logged in, the page was loaded again, and checkAuth restored the
\* rider from the snapshot: no request since the page load.  (No stored
\* entry of this tab held a rider, and no token was ever stored.)
C15_Witness ==
    /\ authPc = "idle"
    /\ currentUser = Rider
    /\ Caches(sessionUser, Rider)
    /\ apiOp = "none"
    /\ apiAttempts = <<>>
    /\ authToken = "none"
    /\ isLoading = FALSE

\* The step on which logout settles.
LogoutEnds == authPc = "logout" /\ authPc' = "idle"

\* C16: when logout has settled the current user is none, the snapshot is
\* absent and the token is absent, whether GET /auth/logout succeeded or
\* failed (so that a page load after it finds nothing to restore).
C16_LogoutClearsSession ==
    [][LogoutEnds =>
          /\ currentUser' = Null
          /\ sessionUser' = Absent
          /\ authToken' = "none"]_vars

\* The step on which a completion of an external sign-in settles, and the
\* user its exchange resolved to.
CompletionEnds ==
    /\ authPc \in {"handleAuthToken", "handleGoogleCallback"}
    /\ authPc' = "idle"

ResolvedUser ==
    IF authPc = "handleAuthToken" THEN exchange.val ELSE UserOf(exchange.val)

RoleOf(user) == GetKey(user, "role").s

OnlyCustomers == "Google login is only available for customers"

\* C17: handleAuthToken and handleGoogleCallback adopt and cache the user
\* the exchange resolved to when its role is CUSTOMER, and change the current
\* user or the snapshot in no other case; when the role is ADMIN or RIDER
\* they throw an error, set its message as the error, and leave the current
\* user and the snapshot as they were.
C17_OnlyCustomersComplete ==
    [][CompletionEnds =>
          LET resolved == exchange.ok /\ ResolvedUser \in Users
          IN  /\ (resolved /\ RoleOf(ResolvedUser) = "CUSTOMER") =>
                    /\ currentUser' = ResolvedUser
                    /\ Caches(sessionUser', ResolvedUser)
                    /\ authRaised' = "none"
                    /\ authError' = "null"
              /\ (resolved /\ RoleOf(ResolvedUser) \in {"ADMIN", "RIDER"}) =>
                    /\ authRaised' = OnlyCustomers
                    /\ authError' = OnlyCustomers
                    /\ currentUser' = currentUser
                    /\ sessionUser' = sessionUser
              /\ (currentUser' # currentUser \/ sessionUser' # sessionUser) =>
                    /\ resolved
                    /\ RoleOf(ResolvedUser) = "CUSTOMER"
              /\ isLoading' = FALSE]_vars

\* A customer is signed in; a completion whose exchange resolved to an admin
\* has thrown, and the customer is still the current user and in the
\* snapshot.
C17_Witness ==
    /\ authPc = "idle"
    /\ exchange.ok
    /\ exchange.val = AuthResponse(Admin)
    /\ authRaised = OnlyCustomers
    /\ authError = OnlyCustomers
    /\ currentUser = Customer
    /\ Caches(sessionUser, Customer)

-----------------------------------------------------------------------------
(* Properties of the dashboards.                                           *)

TerminalStatuses == {"DELIVERED", "UNDELIVERED", "NOT_DELIVERED"}

\* The statuses a row offers, as a set.
Offered(i) == {allowedStatuses[i][k] : k \in 1..Len(allowedStatuses[i])}

RowsRendered ==
    /\ dashboard \in Dashboards
    /\ Len(allowedStatuses) = Len(orderList)

\* C18: on the rider dashboard and on both admin dashboards, the row of an
\* order whose status is DELIVERED, UNDELIVERED or NOT_DELIVERED offers no
\* status.
C18_TerminalStatusesOfferNothing ==
    dashboard \in Dashboards =>
       /\ RowsRendered
       /\ \A i \in 1..Len(orderList) :
             orderList[i] \in TerminalStatuses => allowedStatuses[i] = <<>>

\* An admin dashboard shows a delivered and an undelivered order, and neither
\* row offers a status.
C18_Witness ==
    /\ dashboard = "admin"
    /\ orderList = <<"DELIVERED", "NOT_DELIVERED">>
    /\ allowedStatuses = << <<>>, <<>> >>

\* C19: on the rider dashboard the row of a SHIPPED order offers exactly
\* DELIVERED and NOT_DELIVERED, once each, and the row of an order of any
\* other status offers nothing.
C19_RiderTable ==
    dashboard = "rider" =>
       /\ RowsRendered
       /\ \A i \in 1..Len(orderList) :
             IF orderList[i] = "SHIPPED"
             THEN /\ Offered(i) = {"DELIVERED", "NOT_DELIVERED"}
                  /\ Len(allowedStatuses[i]) = 2
             ELSE allowedStatuses[i] = <<>>

\* The rider dashboard shows a shipped and a paid order: the first row
\* offers the two outcomes of a delivery, the second nothing.
C19_Witness ==
    /\ dashboard = "rider"
    /\ orderList = <<"SHIPPED", "PAID">>
    /\ allowedStatuses = << <<"DELIVERED", "NOT_DELIVERED">>, <<>> >>

\* C20: on every admin dashboard the row of a PAID order offers exactly
\* SHIPPED, the row of a SHIPPED order exactly DELIVERED and NOT_DELIVERED,
\* and the row of an order of any other status nothing.
C20_AdminTable ==
    dashboard \in {"admin", "adminOrders"} =>
       /\ RowsRendered
       /\ \A i \in 1..Len(orderList) :
             CASE orderList[i] = "PAID" -> allowedStatuses[i] = <<"SHIPPED">>
               [] orderList[i] = "SHIPPED" ->
                     /\ Offered(i) = {"DELIVERED", "NOT_DELIVERED"}
                     /\ Len(allowedStatuses[i]) = 2
               [] OTHER -> allowedStatuses[i] = <<>>

-----------------------------------------------------------------------------
(* Properties of the dashboard handlers.                                   *)

\* The handler h ends on this step, or goes on to await another call.
Ends(h) == handlers' = handlers (-) SetToBag({h})

Becomes(h, next) == handlers' = (handlers (-) SetToBag({h})) (+) SetToBag({next})

Proceeds(h) ==
    \E next \in BagToSet(handlers') :
       /\ next.kind = h.kind
       /\ next.pc \in {"assign", "fetch"}
       /\ Becomes(h, next)

\* The step on which the handleStatusChange h goes on after its update
\* call, and a step of a page that stays open with its first load done.
StatusChangeGoesOn(h) ==
    /\ h.kind = "status"
    /\ h.pc = "update"
    /\ Ends(h) \/ Proceeds(h)

PageStays == dashboard' = dashboard /\ dashboard \in Dashboards /\ "orders" \notin pending

\* The server holds the new status for the order of the handler, and no
\* other order has changed.
ServerCommits(h) ==
    server'.orders = [server.orders EXCEPT ![h.order] = h.status]

\* The step of a handler whose update call threw or returned no success:
\* nothing changes but the error, which is set.
StatusChangeFailed(h) ==
    /\ server' = server
    /\ orderList' = orderList
    /\ allowedStatuses' = allowedStatuses
    /\ dashError' # "null"
    /\ Ends(h)

\* The step of a handler whose update call returned a success response: on
\* the rider page the order of the handler, and no other, has the new
\* status in the list and its row is rendered from it; on the admin pages
\* the list stays and the handler goes on to its next call.
StatusChangeSucceeded(h) ==
    /\ ServerCommits(h)
    /\ IF h.page = "rider"
       THEN /\ orderList' = [orderList EXCEPT ![h.order] = h.status]
            /\ allowedStatuses' = RenderRows(dashboard, orderList')
            /\ h.status = "DELIVERED" => allowedStatuses'[h.order] = <<>>
            /\ Ends(h)
       ELSE /\ orderList' = orderList
            /\ allowedStatuses' = allowedStatuses
            /\ Proceeds(h)

\* The step of a handler of a page that is rendered no more: the server may
\* hold the new status; no page changes.
StatusChangeLeftBehind(h) ==
    /\ server' = server \/ ServerCommits(h)
    /\ UNCHANGED <<dashboard, orderList, allowedStatuses, dashError, dashLoading>>

\* C21: the order list of a page changes only after updateOrderStatus
\* returned a success response: on the rider page on the step on which the
\* handler goes on, and then only in the status of the order the handler was
\* called for, which becomes the new status; on the admin pages when a
\* fetchOrders called by a handler settles, to the orders the server holds,
\* whose statuses change by successful updates only.  When the call throws
\* or returns no success the list is as before and an error message is set.
\* A SHIPPED order a rider changed to DELIVERED then offers no status.
C21_ListChangesOnlyAfterSuccess ==
    [][/\ (PageStays /\ orderList' # orderList) =>
            \E h \in Awaiting :
               /\ h.live
               /\ IF dashboard = "rider"
                  THEN StatusChangeGoesOn(h) /\ StatusChangeSucceeded(h)
                  ELSE /\ h.pc = "fetch"
                       /\ Ends(h)
                       /\ orderList' = server.orders
                       /\ allowedStatuses' = RenderRows(dashboard, orderList')
       /\ server'.orders # server.orders =>
            \E h \in Awaiting : StatusChangeGoesOn(h) /\ ServerCommits(h)
       /\ \A h \in Awaiting :
            /\ StatusChangeGoesOn(h) =>
                  IF h.live
                  THEN StatusChangeFailed(h) \/ StatusChangeSucceeded(h)
                  ELSE StatusChangeLeftBehind(h)
            /\ (h.live /\ h.kind = "status" /\ h.pc = "update" /\ Proceeds(h))
                  => StatusChangeSucceeded(h)]_vars

\* A rider chose DELIVERED and then NOT_DELIVERED for the first of two
\* shipped orders: the first change has succeeded, the row offers nothing
\* and the other order is as it was, while the second change awaits its
\* response.
C21_Witness ==
    /\ dashboard = "rider"
    /\ orderList = <<"DELIVERED", "SHIPPED">>
    /\ allowedStatuses = << <<>>, <<"DELIVERED", "NOT_DELIVERED">> >>
    /\ dashError = "null"
    /\ BagCardinality(handlers) = 1
    /\ \E h \in Awaiting :
          /\ h.live
          /\ h.pc = "update"
          /\ h.order = 1
          /\ h.status = "NOT_DELIVERED"

\* The steps of the admin flow: the handleStatusChange h of the page shown
\* has committed a change to SHIPPED and goes on as next, and the assignment
\* call it awaited has settled; the call failed when the order is not with
\* the rider sent.
ShippedCommitted(h, next) ==
    /\ h.live
    /\ h.page = "admin"
    /\ h.kind = "status"
    /\ h.pc = "update"
    /\ h.status = "SHIPPED"
    /\ next.kind = "status"
    /\ next.pc \in {"assign", "fetch"}
    /\ Becomes(h, next)

AssignmentSettles(h) ==
    /\ h.live
    /\ h.kind = "status"
    /\ h.pc = "assign"
    /\ Proceeds(h)

AssignmentFailed(h) == server'.riders[h.order] # h.sent

\* The update handlers awaiting their call are those of before.
NoUpdateStarts ==
    \A h \in BagToSet(handlers') :
       h.pc = "update" => CopiesIn(h, handlers') <= CopiesIn(h, handlers)

\* The rider assignment of the admin flow up to the settling of its call,
\* over the order list and the rider list the page holds when the update
\* has succeeded.
AssignsOneKnownRider(h) ==
    /\ \A next \in BagToSet(handlers') :
          ShippedCommitted(h, next) =>
             IF orderRiders[h.order] = "" /\ Len(riderList) > 0
             THEN /\ next.pc = "assign"
                  /\ \E k \in 1..Len(riderList) : next.sent = riderList[k]
             ELSE /\ next.pc = "fetch"
                  /\ next.sent = ""
    /\ AssignmentSettles(h) =>
          /\ server'.orders = server.orders
          /\ orderList' = orderList
          /\ NoUpdateStarts

\* C22: on the admin page, after a change to SHIPPED succeeded for an order
\* without a rider, exactly one rider of the rider list known to the handler
\* is sent to assignRider; for an order with a rider, or with no rider known,
\* no call is made; an assignment that fails sets an error message, and the
\* committed change is neither reverted nor submitted again.
C22_AutoAssignAfterShipped ==
    [][\A h \in Awaiting :
          /\ AssignsOneKnownRider(h)
          /\ (AssignmentSettles(h) /\ AssignmentFailed(h)) => dashError' # "null"]_vars

-----------------------------------------------------------------------------
(* Properties of the session controls.                                     *)

\* C23: at most one of login, register and logout awaits its request at any
\* time: while one does, no page offers a control that starts another.
C23_OneSessionOperationInFlight == InFlightTotal <= 1

-----------------------------------------------------------------------------
(* Properties of the featured products.                                    *)

\* The products of the response that are not among the featured ones rate no
\* higher than any featured one, and the featured ones are in falling order
\* of rating.
TopRatedOf(featured, products) ==
    /\ Len(featured) = (IF Len(products) < FeaturedLimit THEN Len(products)
                        ELSE FeaturedLimit)
    /\ \A i \in 1..Len(featured) : \E j \in 1..Len(products) : featured[i] = products[j]
    /\ \A i, j \in 1..Len(featured) : i < j => featured[i].rating >= featured[j].rating
    /\ \A i, j \in 1..Len(featured) : i # j => featured[i].id # featured[j].id
    /\ \A j \in 1..Len(products) :
          (\A i \in 1..Len(featured) : featured[i].id # products[j].id)
             => \A i \in 1..Len(featured) : featured[i].rating >= products[j].rating

\* C24: once the featured products are fetched: when a featured endpoint
\* succeeded the page holds its products (the first three); when the
\* featured endpoints failed and the catalog was fetched the page holds the
\* at most three best rated products of the catalog, best first, and shows
\* no error; an error is shown only when the catalog fetch failed too.
C24_FeaturedProductsFallback ==
    home.pc = "done" =>
        /\ home.source = "featured"
              => home.featured = Slice(ToProducts(home.response))
        /\ home.source = "catalog"
              => /\ TopRatedOf(home.featured, ToProducts(home.response))
                 /\ home.error = "null"
        /\ home.error # "null" => home.source = "failed"

-----------------------------------------------------------------------------
(* Properties of the protected screens.                                    *)

RouteRendered == route' # route /\ route'.restricted

\* currentUser.role, "undefined" when the user holds none.
RoleOfUser(user) ==
    IF HasKey(user, "role") /\ GetKey(user, "role").t = "string"
    THEN GetKey(user, "role").s ELSE "undefined"

\* C25: a role-restricted screen renders its children only when isLoading is
\* false, a current user exists and the user's role is among the allowed
\* roles; with no user it navigates to /login, with a role that is not
\* allowed to the page of that role (ADMIN: /admin, RIDER: /rider, CUSTOMER:
\* /account); and no step takes the current user from one role to another:
\* the role changes only by a user being adopted where none was, or by the
\* user being dropped.
C25_ProtectedRoute ==
    [][/\ RouteRendered =>
            LET role == RoleOfUser(currentUser)
                shown == route'.shown
            IN  /\ isLoading => shown = "spinner"
                /\ shown = "children"
                      => ~isLoading /\ Truthy(currentUser) /\ role \in route'.allowed
                /\ (~isLoading /\ ~Truthy(currentUser)) => shown = "/login"
                /\ (~isLoading /\ Truthy(currentUser) /\ role \in UserRoles
                       /\ role \notin route'.allowed)
                      => shown = (IF role = "ADMIN" THEN "/admin"
                                  ELSE IF role = "RIDER" THEN "/rider"
                                  ELSE "/account")
       /\ (Truthy(currentUser) /\ Truthy(currentUser'))
             => RoleOfUser(currentUser') = RoleOfUser(currentUser)]_vars

\* An administrator is sent from a screen of the riders to /admin.
C25_Witness ==
    /\ route = [restricted |-> TRUE, allowed |-> {"RIDER"}, shown |-> "/admin",
                from |-> ""]
    /\ RoleOfUser(currentUser) = "ADMIN"
    /\ ~isLoading

-----------------------------------------------------------------------------
(* Properties of the reducer as a function.                                *)

\* C26: cartReducer is pure for ADD_TO_CART: a call leaves the state object
\* it was given (and its lines) as it was, and every call with the same
\* state object and action returns the same quantities.
C26_ReducerIsPure ==
    /\ reducerRun.state = reducerRun.first
    /\ \A i, j \in 1..Len(reducerRun.results) :
          reducerRun.results[i] = reducerRun.results[j]

-----------------------------------------------------------------------------
(* Properties of a rejected token.                                         *)

\* A step in which the token check of checkAuth ends.
TokenCheckEnds == authPc = "checkAuth" /\ authPc' = "idle"

\* C27: once handleAuthToken has rejected a token because its user is an
\* administrator or a rider, no token check made with that token adopts that
\* user: the rejected token is not left where checkAuth finds it.
C27_RejectedTokenNotRestored ==
    [][(TokenCheckEnds /\ rejected.token # "none" /\ authToken = rejected.token)
          => currentUser' # rejected.user]_vars

-----------------------------------------------------------------------------
(* Properties of the callback page.                                        *)

\* C28: during one visit to the callback page with a token in the URL,
\* handleAuthToken is called at most once, also when the exchange fails and
\* the flags are reset before the redirect to /login takes effect.
C28_TokenHandledOnce == callback.calls <= 1

-----------------------------------------------------------------------------
(* Properties of isLoading.                                                *)

\* None of checkAuth, login, register and handleAuthToken has started and
\* not ended.
NoOperationRuns == authPc = "idle" /\ InFlightTotal = 0

\* C29: when every request that was issued completes, isLoading becomes
\* false again after checkAuth, login, register and handleAuthToken,
\* whichever way they end: whenever it is true it is false later, and it is
\* false whenever none of them is running.
C29_LoadingEnds ==
    /\ isLoading ~> ~isLoading
    /\ [](NoOperationRuns => ~isLoading)

\* handleAuthToken has ended by throwing, and isLoading is false.
C29_Witness ==
    /\ NoOperationRuns
    /\ ~isLoading
    /\ authRaised = "Failed to get user details from token"

-----------------------------------------------------------------------------
(* Properties of the status progression.                                   *)

\* The place of a status on the path PLACED, PAID, SHIPPED,
\* IN_TRANSIT/ON_THE_WAY, then DELIVERED or NOT_DELIVERED/UNDELIVERED.
StatusRank(status) ==
    CASE status = "PLACED" -> 1
      [] status = "PAID" -> 2
      [] status = "SHIPPED" -> 3
      [] status \in {"IN_TRANSIT", "ON_THE_WAY"} -> 4
      [] OTHER -> 5

\* What the tables of the three pages together offer for a status.
OfferedFor(status) ==
    UNION {{AllowedFor(d, status)[k] : k \in 1..Len(AllowedFor(d, status))} :
              d \in Dashboards}

\* The statuses an order can have after n offered changes, starting from
\* one of the statuses S.
RECURSIVE AfterChanges(_, _)
AfterChanges(S, n) ==
    IF n = 0 THEN S ELSE AfterChanges(UNION {OfferedFor(s) : s \in S}, n - 1)

\* The most offered changes an order with the status can still go through:
\* the steps that are left on the path.
ChangesLeft(status) == StatusRank("DELIVERED") - StatusRank(status)

Terminal(status) == status \in {"DELIVERED", "NOT_DELIVERED", "UNDELIVERED"}

\* C30: every status a row of a dashboard offers lies strictly further along
\* PLACED, PAID, SHIPPED, IN_TRANSIT/ON_THE_WAY, DELIVERED than the status
\* of its order, NOT_DELIVERED and UNDELIVERED are offered for SHIPPED only,
\* and the row of a DELIVERED, NOT_DELIVERED or UNDELIVERED order offers
\* nothing; every change a handler asks for is one a table offers; from any
\* status, and so from the one an order has, nothing is offered any more
\* after as many offered changes as steps are left on the path
\* (ChangesLeft); and each change of
\* an order on the server moves it strictly forward and away from a status
\* that is not terminal.
C30_StatusMovesForward ==
    /\ [](\A i \in 1..Len(orderList) :
            /\ Len(allowedStatuses) = Len(orderList)
            /\ \A k \in 1..Len(allowedStatuses[i]) :
                  /\ StatusRank(orderList[i]) < StatusRank(allowedStatuses[i][k])
                  /\ allowedStatuses[i][k] \in {"NOT_DELIVERED", "UNDELIVERED"} =>
                        orderList[i] = "SHIPPED"
            /\ Terminal(orderList[i]) => allowedStatuses[i] = <<>>)
    /\ [](\A h \in Awaiting : h.pc = "update" =>
            \E status \in OrderStatuses :
               /\ h.status \in OfferedFor(status)
               /\ StatusRank(status) < StatusRank(h.status))
    /\ [](\A status \in OrderStatuses \cup
                         {server.orders[i] : i \in 1..Len(server.orders)} :
            \A last \in AfterChanges({status}, ChangesLeft(status)) :
               OfferedFor(last) = {})
    /\ [][\A i \in 1..Len(server.orders) :
            server'.orders[i] # server.orders[i] =>
               /\ StatusRank(server.orders[i]) < StatusRank(server'.orders[i])
               /\ ~Terminal(server.orders[i])]_vars

\* On the RiderDashboard the first order went from SHIPPED to DELIVERED: its
\* row offers nothing any more, and the NOT_DELIVERED chosen in the row
\* before the answer came still awaits its own.
C30_Witness ==
    /\ dashboard = "rider"
    /\ Len(orderList) >= 1
    /\ orderList[1] = "DELIVERED"
    /\ server.orders[1] = "DELIVERED"
    /\ allowedStatuses[1] = <<>>
    /\ \E h \in Awaiting :
          /\ h.live /\ h.pc = "update" /\ h.order = 1
          /\ h.status = "NOT_DELIVERED"

====
